---------------------------- MODULE Spec2Model ----------------------------
(***************************************************************************)
(* A model of the pynn / learning toolkit: the Network composition engine  *)
(* (src/pynn/network.py) and the Perceptron layer (src/pynn/transform.py). *)
(*                                                                         *)
(* Vectors are sequences of integers; the integers stand for the floats of *)
(* the program and are computed exactly.  An epoch error, which the        *)
(* program obtains by dividing, is kept as a fraction <<num, den>>.        *)
(***************************************************************************)
EXTENDS Integers, Sequences, FiniteSets, TLC

(***************************************************************************)
(* Bounds of the model.                                                    *)
(***************************************************************************)
MaxLayers == 3

MaxCalls == 2

MaxSelect == 2

MaxIterations == 2

MaxUpdates == 2

\* The arity 'any' of network.py (a string there; arities are positive).
ANY == 0

(***************************************************************************)
(* The state.                                                              *)
(***************************************************************************)
VARIABLES
    built,        \* a Network object exists (its __init__ returned)
    layers,       \* Network._layers: sequence of layer descriptors
    num_inputs,   \* Network._num_inputs
    num_outputs,  \* Network._num_outputs
    activations,  \* Network._activations
    iteration,    \* Network.iteration
    logging,      \* Network.logging
    weights,      \* weights[k]: the learnable state of layer k
    op,           \* the last operation called
    arg,          \* its arguments
    ret,          \* its return value
    raised,       \* the exception it raised, or "none"
    calls,        \* the layer methods it called, in order
    epochs,       \* the epochs train ran: selection, errors, epoch error
    ncalls        \* number of operations called on the network so far

netVars == <<built, layers, num_inputs, num_outputs, activations, iteration,
             logging, weights, op, arg, ret, raised, calls, epochs, ncalls>>

VARIABLES
    perceptron,   \* a transform.Perceptron: its fields
    p_op,         \* the last method called on it
    p_ret,        \* the value the method returned
    p_raised,     \* the exception the method raised, or "none"
    p_updates     \* number of update calls made on it so far

percVars == <<perceptron, p_op, p_ret, p_raised, p_updates>>

VARIABLES
    rbf,          \* an RBF model: its fields and those of its sub-models
    r_op,         \* the last method called on it
    r_arg,        \* its arguments
    r_ret,        \* the value it returned
    r_log,        \* what the method did, in order: calls on the sub-models
    r_ncalls      \* number of methods called on it so far

rbfVars == <<rbf, r_op, r_arg, r_ret, r_log, r_ncalls>>

VARIABLES
    reg,          \* a LinearRegressionModel: its fields and its optimizer's
    g_op,         \* the last method called on it
    g_arg,        \* its arguments
    g_ret,        \* the value it returned
    g_raised,     \* the exception it raised, or "none"
    g_log,        \* what the method did, in order
    g_ncalls      \* number of methods called on it so far

regVars == <<reg, g_op, g_arg, g_ret, g_raised, g_log, g_ncalls>>

\* Cross validation (validation.py): the call last made, the patterns and
\* the number of sets it was given, the sets and the (train, test) pairs.
VARIABLES
    v_op, v_patterns, v_num_sets, v_sets, v_pairs
valVars == <<v_op, v_patterns, v_num_sets, v_sets, v_pairs>>

\* calculate.protvecdiv: the call last made, its arguments and its result.
VARIABLES
    c_op, c_vec_a, c_vec_b, c_ret, c_raised
calcVars == <<c_op, c_vec_a, c_vec_b, c_ret, c_raised>>

\* A graph.Graph: its fields, and the call last made on it.
VARIABLES
    graph, h_op, h_arg, h_raised, h_before, h_ncalls
graphVars == <<graph, h_op, h_arg, h_raised, h_before, h_ncalls>>

vars == <<netVars, percVars, rbfVars, regVars, valVars, calcVars, graphVars>>

\* The state outside the Network, the Perceptron, the RBF model, the
\* regression model.
exceptNet == <<percVars, rbfVars, regVars, valVars, calcVars, graphVars>>

exceptPerc == <<netVars, rbfVars, regVars, valVars, calcVars, graphVars>>

exceptRBF == <<netVars, percVars, regVars, valVars, calcVars, graphVars>>

exceptReg == <<netVars, percVars, rbfVars, valVars, calcVars, graphVars>>
exceptVal == <<netVars, percVars, rbfVars, regVars, calcVars, graphVars>>
exceptCalc == <<netVars, percVars, rbfVars, regVars, valVars, graphVars>>
exceptGraph == <<netVars, percVars, rbfVars, regVars, valVars, calcVars>>

(***************************************************************************)
(* Layer descriptors: what Network construction reads of a layer.          *)
(***************************************************************************)
Tags == {"supportsGrowing"}

Arities == {1, 2, ANY}

NoTags == {}

\* A Layer instance: its arities and its capability tags.
LayerDesc(ni, no, attrs, rprev, rnext) ==
    [is_layer |-> TRUE, num_inputs |-> ni, num_outputs |-> no,
     attributes |-> attrs, requires_prev |-> rprev, requires_next |-> rnext]

\* An object that is not a Layer.
NotALayer ==
    [is_layer |-> FALSE, num_inputs |-> ANY, num_outputs |-> ANY,
     attributes |-> NoTags, requires_prev |-> NoTags, requires_next |-> NoTags]

\* Layers of every arity pair without tags, and layers of every tag
\* combination on two arity pairs.
TaggedArities == {<<1, 1>>, <<ANY, ANY>>}

LayerKinds ==
    {LayerDesc(ni, no, NoTags, NoTags, NoTags) : ni \in Arities, no \in Arities}
    \cup {LayerDesc(a[1], a[2], t[1], t[2], t[3]) :
            a \in TaggedArities,
            t \in (SUBSET Tags) \X (SUBSET Tags) \X (SUBSET Tags)}

RECURSIVE SeqsUpTo(_, _)
SeqsUpTo(S, n) ==
    IF n = 0 THEN {<<>>}
    ELSE LET shorter == SeqsUpTo(S, n - 1)
         IN  shorter \cup {Append(s, x) : s \in {t \in shorter : Len(t) = n - 1}, x \in S}

(***************************************************************************)
(* Network validation (network.py, "Network validation").                  *)
(***************************************************************************)
\* _validate_layers_layers: TRUE when it raises TypeError.
ValidateLayersLayersRaises(ls) ==
    \E i \in 1..Len(ls) : ~ls[i].is_layer

_all_in(all_required, values) ==
    \A required \in all_required : required \in values

\* _validate_requires_next: TRUE when it raises TypeError.
ValidateRequiresNextRaises(prev_layer, layer) ==
    ~_all_in(prev_layer.requires_next, layer.attributes)

\* _validate_requires_prev: TRUE when it raises TypeError.
ValidateRequiresPrevRaises(next_layer, layer) ==
    ~_all_in(next_layer.requires_prev, layer.attributes)

\* The arity loop of _validate_layers_sequence from index i (1-based) on,
\* last_num being the loop's running value: TRUE when it raises ValueError.
RECURSIVE ArityLoopRaises(_, _, _)
ArityLoopRaises_FirstPairOnly(ls, i, last_num) ==
    /\ i = 1
    /\ i <= Len(ls) - 1
    /\ ls[i + 1].num_inputs # ANY
    /\ ls[i].num_outputs # ANY
    /\ ls[i + 1].num_inputs # ls[i].num_outputs

ArityLoopRaises(ls, i, last_num) ==
    IF i > Len(ls) - 1 THEN FALSE
    ELSE LET layer == ls[i]
             next_layer == ls[i + 1]
         IN  IF next_layer.num_inputs = ANY
             THEN ArityLoopRaises(ls, i + 1, last_num)
             ELSE LET last == layer.num_outputs
                  IN  IF last # ANY /\ next_layer.num_inputs # last
                      THEN TRUE
                      ELSE ArityLoopRaises(ls, i + 1, last)

\* The two tag loops of _validate_layers_sequence: TRUE when one raises.
RequiresLoopsRaise_NextOnly(ls) ==
    \E i \in 1..(Len(ls) - 1) : ValidateRequiresNextRaises(ls[i], ls[i + 1])

RequiresLoopsRaise(ls) ==
    \/ \E i \in 1..(Len(ls) - 1) : ValidateRequiresNextRaises(ls[i], ls[i + 1])
    \/ \E i \in 2..Len(ls) : ValidateRequiresPrevRaises(ls[i], ls[i - 1])

\* _validate_layers_sequence(layers): the exception it raises, or "none".
_validate_layers_sequence(ls) ==
    IF ValidateLayersLayersRaises(ls) THEN "TypeError"
    ELSE IF ArityLoopRaises(ls, 1, ANY) THEN "ValueError"
    ELSE IF RequiresLoopsRaise(ls) THEN "TypeError"
    ELSE "none"

RECURSIVE FindFirstFixed(_, _, _)
\* The first non-'any' value of field f scanning ls from index i in steps d.
FindFirstFixed(ls, i, d) ==
    IF i < 1 \/ i > Len(ls) THEN ANY
    ELSE LET v == IF d = 1 THEN ls[i].num_inputs ELSE ls[i].num_outputs
         IN  IF v # ANY THEN v ELSE FindFirstFixed(ls, i + d, d)

_find_num_inputs(ls) == FindFirstFixed(ls, 1, 1)

_find_num_outputs(ls) == FindFirstFixed(ls, Len(ls), -1)

(***************************************************************************)
(* Vectors.                                                                *)
(***************************************************************************)
RECURSIVE Sum(_)
Sum(v) == IF v = <<>> THEN 0 ELSE v[1] + Sum(Tail(v))

SumSq(v) == Sum([i \in 1..Len(v) |-> v[i] * v[i]])

VecSub(a, b) == [i \in 1..Len(a) |-> a[i] - b[i]]

Sgn(x) == IF x > 0 THEN 1 ELSE IF x < 0 THEN -1 ELSE 0

\* The value None of the program.
None == <<>>

(***************************************************************************)
(* Layers (network.py, class Layer).  Network calls five methods of each   *)
(* layer.  A layer with a fixed num_outputs is a transform layer holding   *)
(* one shared integer weight w, which an update moves by one unit; a layer *)
(* whose num_outputs is 'any' is a                                         *)
(* stateless transfer layer (tanh rounded to an integer, which is Sgn on   *)
(* the integers).                                                          *)
(***************************************************************************)
IsTransfer(l) == l.num_outputs = ANY

\* layer.activate(inputs): [ok, v]; ok is FALSE when the layer raises
\* ValueError('wrong number of inputs').
LayerActivate(l, w, inputs) ==
    IF l.num_inputs # ANY /\ Len(inputs) # l.num_inputs
    THEN [ok |-> FALSE, v |-> <<>>]
    ELSE IF IsTransfer(l)
    THEN [ok |-> TRUE, v |-> [j \in 1..Len(inputs) |-> Sgn(inputs[j])]]
    ELSE [ok |-> TRUE, v |-> [j \in 1..l.num_outputs |-> w * Sum(inputs)]]

\* layer.get_prev_errors(errors, outputs)
LayerGetPrevErrors(l, w, errors, outputs) ==
    IF IsTransfer(l) THEN errors
    ELSE [i \in 1..(IF l.num_inputs # ANY THEN l.num_inputs ELSE Len(errors))
            |-> w * Sum(errors)]

\* layer.update(inputs, outputs, errors): the layer's new weight, one unit
\* step along the sign of the gradient.
LayerUpdate(l, w, inputs, outputs, errors) ==
    IF IsTransfer(l) THEN w
    ELSE w + Sgn(Sum(inputs) * Sum(errors))

\* layer.get_outputs(inputs, outputs): Layer's default returns inputs, a
\* transfer layer its derivative at outputs (dsigmoid).
LayerGetOutputs(l, inputs, outputs) ==
    IF IsTransfer(l) THEN [j \in 1..Len(outputs) |-> 1 - outputs[j] * outputs[j]]
    ELSE inputs

\* One entry of the log of layer calls: method m of layer k, whose weight
\* was w when the call began.
Call(m, k, w, inputs, outputs, errors) ==
    [m |-> m, k |-> k, w |-> w, inputs |-> inputs, outputs |-> outputs,
     errors |-> errors]

(***************************************************************************)
(* Network.activate                                                        *)
(***************************************************************************)
RECURSIVE ActivateLoop(_, _, _, _, _, _)
\* The loop of Network.activate from layer k on; acts is self._activations.
ActivateLoop(ls, ws, k, inputs, acts, log) ==
    IF k > Len(ls)
    THEN [raised |-> "none", activations |-> acts, ret |-> inputs, calls |-> log]
    ELSE LET r    == LayerActivate(ls[k], ws[k], inputs)
             log2 == Append(log, Call("activate", k, ws[k], inputs, <<>>, <<>>))
         IN  IF ~r.ok
             THEN [raised |-> "ValueError", activations |-> acts, ret |-> None,
                   calls |-> log2]
             ELSE ActivateLoop(ls, ws, k + 1, r.v, Append(acts, r.v), log2)

\* The first assignment of the trace in Network.activate.
StartTrace_KeepOld(acts, inputs) == Append(acts, inputs)

StartTrace(acts, inputs) == <<inputs>>

NetActivate_TraceFirst(ls, ws, ni, acts, inputs) ==
    IF ni # ANY /\ Len(inputs) # ni
    THEN [raised |-> "ValueError", activations |-> StartTrace(acts, inputs),
          ret |-> None, calls |-> <<>>]
    ELSE ActivateLoop(ls, ws, 1, inputs, StartTrace(acts, inputs), <<>>)

\* Network.activate(inputs) on a network with layers ls, weights ws,
\* trace acts and _num_inputs ni.
NetActivate(ls, ws, ni, acts, inputs) ==
    IF ni # ANY /\ Len(inputs) # ni
    THEN [raised |-> "ValueError", activations |-> acts, ret |-> None,
          calls |-> <<>>]
    ELSE ActivateLoop(ls, ws, 1, inputs, StartTrace(acts, inputs), <<>>)

(***************************************************************************)
(* Network.update                                                          *)
(***************************************************************************)
\* One pass of the backward loop of Network.update on layer k: the three
\* layer calls in the order the code makes them.  st = [ws, errors, outputs,
\* log]; inputs_ is the layer's recorded input.
BackwardStep_UpdateFirst(ls, st, k, inputs_) ==
    LET l   == ls[k]
        w   == st.ws[k]
        w2  == LayerUpdate(l, w, inputs_, st.outputs, st.errors)
        prev_errors == LayerGetPrevErrors(l, w2, st.errors, st.outputs)
    IN  [ws      |-> [st.ws EXCEPT ![k] = w2],
         errors  |-> prev_errors,
         outputs |-> LayerGetOutputs(l, inputs_, st.outputs),
         log     |-> st.log \o
            << Call("update", k, w, inputs_, st.outputs, st.errors),
               Call("get_prev_errors", k, w2, <<>>, st.outputs, st.errors),
               Call("get_outputs", k, w2, inputs_, st.outputs, <<>>) >>]

BackwardStep(ls, st, k, inputs_) ==
    LET l   == ls[k]
        w   == st.ws[k]
        prev_errors == LayerGetPrevErrors(l, w, st.errors, st.outputs)
        w2  == LayerUpdate(l, w, inputs_, st.outputs, st.errors)
    IN  [ws      |-> [st.ws EXCEPT ![k] = w2],
         errors  |-> prev_errors,
         outputs |-> LayerGetOutputs(l, inputs_, st.outputs),
         log     |-> st.log \o
            << Call("get_prev_errors", k, w, <<>>, st.outputs, st.errors),
               Call("update", k, w, inputs_, st.outputs, st.errors),
               Call("get_outputs", k, w2, inputs_, st.outputs, <<>>) >>]

RECURSIVE BackwardLoop_ShiftedTrace(_, _, _, _)
BackwardLoop_ShiftedTrace(ls, acts, st, k) ==
    IF k < 1 THEN st
    ELSE BackwardLoop_ShiftedTrace(ls, acts, BackwardStep(ls, st, k, acts[k + 1]), k - 1)

RECURSIVE BackwardLoop(_, _, _, _)
\* for i, layer in enumerate(reversed(self._layers)), at layer k = n - i.
BackwardLoop(ls, acts, st, k) ==
    IF k < 1 THEN st
    ELSE BackwardLoop(ls, acts, BackwardStep(ls, st, k, acts[k]), k - 1)

\* Network.update from "errors = targets - outputs" on; a is the result of
\* self.activate(inputs).
UpdateBackward(ls, ws, a, errors) ==
    [a EXCEPT !.ret = errors] @@
    BackwardLoop(ls, a.activations,
                 [ws |-> ws, errors |-> errors, outputs |-> a.ret,
                  log |-> a.calls],
                 Len(ls))

\* Network.update after its call of self.activate returned or raised.
UpdateAfterActivate(ls, ws, targets, a) ==
    IF a.raised # "none"
    THEN [raised |-> a.raised, weights |-> ws, activations |-> a.activations,
          ret |-> None, calls |-> a.calls]
    ELSE [raised |-> "none",
          weights |-> UpdateBackward(ls, ws, a, VecSub(targets, a.ret)).ws,
          activations |-> a.activations,
          ret |-> VecSub(targets, a.ret),
          calls |-> UpdateBackward(ls, ws, a, VecSub(targets, a.ret)).log]

NetUpdate_ValidateLast(ls, ws, ni, no, acts, inputs, targets) ==
    IF NetActivate(ls, ws, ni, acts, inputs).raised = "none"
       /\ no # ANY /\ Len(targets) # no
    THEN [raised |-> "ValueError", weights |-> ws,
          activations |-> NetActivate(ls, ws, ni, acts, inputs).activations,
          ret |-> None, calls |-> <<>>]
    ELSE UpdateAfterActivate(ls, ws, targets,
                             NetActivate(ls, ws, ni, acts, inputs))

\* Network.update(inputs, targets) on a network with layers ls, weights ws,
\* trace acts, _num_inputs ni and _num_outputs no.
NetUpdate(ls, ws, ni, no, acts, inputs, targets) ==
    IF no # ANY /\ Len(targets) # no
    THEN [raised |-> "ValueError", weights |-> ws, activations |-> acts,
          ret |-> None, calls |-> <<>>]
    ELSE UpdateAfterActivate(ls, ws, targets,
                             NetActivate(ls, ws, ni, acts, inputs))

(***************************************************************************)
(* Pattern selection functions                                             *)
(***************************************************************************)
\* A selection is the sequence of the positions (1-based) of the selected
\* patterns; a pattern_select_func is [name, size], size -1 standing for
\* the default size=None.
NoSize == -1

IsInjective(q) == \A i, j \in 1..Len(q) : i # j => q[i] # q[j]

SeqsOfLen(S, n) == [1..n -> S]

\* select_iterative(patterns): the set of its possible results.
select_iterative(N) == { [i \in 1..N |-> i] }

\* select_sample(patterns, size): random.sample raises ValueError when the
\* sample is larger than the population.
select_sample_raises(N, size) == size # NoSize /\ size > N

select_sample_AllowRepeats(N, size) ==
    SeqsOfLen(1..N, IF size = NoSize THEN N ELSE size)

select_sample(N, size) ==
    { q \in SeqsOfLen(1..N, IF size = NoSize THEN N ELSE size) : IsInjective(q) }

\* select_random(patterns, size): random.randint(0, -1) raises ValueError
\* when patterns is empty and an index is drawn.
select_random_raises(N, size) == N = 0 /\ size # NoSize /\ size > 0

select_random(N, size) ==
    SeqsOfLen(1..N, IF size = NoSize THEN N ELSE size)

SelectRaises(f, N) ==
    CASE f.name = "select_iterative" -> FALSE
      [] f.name = "select_sample" -> select_sample_raises(N, f.size)
      [] f.name = "select_random" -> select_random_raises(N, f.size)

SelectResults(f, N) ==
    CASE f.name = "select_iterative" -> select_iterative(N)
      [] f.name = "select_sample" -> select_sample(N, f.size)
      [] f.name = "select_random" -> select_random(N, f.size)

(***************************************************************************)
(* Fractions <<num, den>>, den > 0.                                        *)
(***************************************************************************)
FracAdd(a, b) == <<a[1] * b[2] + b[1] * a[2], a[2] * b[2]>>

FracLess(a, b) == a[1] * b[2] < b[1] * a[2]

FracEq(a, b) == a[1] * b[2] = b[1] * a[2]

FracZero == <<0, 1>>

\* numpy.mean(errors**2)
MeanSq(errors) == <<SumSq(errors), Len(errors)>>

(***************************************************************************)
(* Network.reset and Network.train                                         *)
(***************************************************************************)
\* layer.reset(): a transform layer draws its weight anew (fresh), a
\* transfer layer does nothing.
LayerReset(l, w, fresh) == IF IsTransfer(l) THEN w ELSE fresh

\* Network.reset(): the weights and the log of the reset calls.
NetReset(ls, ws, fresh) ==
    [ws  |-> [k \in 1..Len(ls) |-> LayerReset(ls[k], ws[k], fresh[k])],
     log |-> [k \in 1..Len(ls) |-> Call("reset", k, ws[k], <<>>, <<>>, <<>>)]]

\* The divisor of the epoch error in Network.train.
EpochDivisor(patterns, sel) == Len(patterns)

\* Whether train leaves its loop after an epoch with this error.
BreakEarly(error, error_break) == FracLess(error, error_break)

RECURSIVE EpochLoop(_, _, _, _)
\* The body of the inner loop of train after self.update returned u.
\* st = [raised, ws, acts, log, error, mses].
EpochAfterUpdate(c, st, u) ==
    IF u.raised # "none"
    THEN [st EXCEPT !.raised = u.raised, !.acts = u.activations,
                    !.log = st.log \o u.calls]
    ELSE [st EXCEPT !.ws = u.weights, !.acts = u.activations,
                    !.log = st.log \o u.calls,
                    !.error = IF c.track
                              THEN FracAdd(st.error, MeanSq(u.ret))
                              ELSE st.error,
                    !.mses = Append(st.mses, MeanSq(u.ret))]

\* The inner loop of train over the selected patterns sel, from position j.
EpochLoop(c, st, sel, j) ==
    IF j > Len(sel) \/ st.raised # "none" THEN st
    ELSE EpochLoop(c,
            EpochAfterUpdate(c, st,
                NetUpdate(c.ls, st.ws, c.ni, c.no, st.acts,
                          c.patterns[sel[j]][1], c.patterns[sel[j]][2])),
            sel, j + 1)

\* The record of an executed epoch.
Epoch(c, it, sel, e, div) ==
    [iteration |-> it, selected |-> sel, mses |-> e.mses, tracked |-> c.track,
     error |-> <<e.error[1], e.error[2] * div>>]

RECURSIVE TrainLoop(_, _, _)
\* The body of the outer loop of train after its inner loop ended in e;
\* t2 is the network then, div the divisor of the epoch error.
TrainAfterEpoch(c, t2, it, sel, e, div) ==
    IF e.raised # "none" THEN [t2 EXCEPT !.raised = e.raised]
    ELSE IF ~c.track
    THEN TrainLoop(c, [t2 EXCEPT !.epochs = Append(@, Epoch(c, it, sel, e, 1))],
                   it + 1)
    ELSE IF div = 0 THEN [t2 EXCEPT !.raised = "ZeroDivisionError"]
    ELSE IF BreakEarly(<<e.error[1], e.error[2] * div>>, c.error_break)
    THEN [t2 EXCEPT !.epochs = Append(@, Epoch(c, it, sel, e, div))]
    ELSE TrainLoop(c, [t2 EXCEPT !.epochs = Append(@, Epoch(c, it, sel, e, div))],
                   it + 1)

\* One epoch of train on the selection sel.
TrainEpoch(c, t, it, sel, e) ==
    TrainAfterEpoch(c,
        [t EXCEPT !.ws = e.ws, !.acts = e.acts, !.log = e.log, !.iteration = it],
        it, sel, e, EpochDivisor(c.patterns, sel))

\* for self.iteration in range(iterations), at iteration it (0-based).
\* t = [raised, ws, acts, iteration, log, epochs].
TrainLoop(c, t, it) ==
    IF it >= c.iterations THEN t
    ELSE IF SelectRaises(c.select, Len(c.patterns))
    THEN [t EXCEPT !.raised = "ValueError", !.iteration = it]
    ELSE TrainEpoch(c, t, it, c.sels[it + 1],
            EpochLoop(c, [raised |-> "none", ws |-> t.ws, acts |-> t.acts,
                          log |-> t.log, error |-> FracZero, mses |-> <<>>],
                      c.sels[it + 1], 1))

\* Network._reset_bookkeeping(): the new value of self.iteration.
_reset_bookkeeping(it) == 0

\* The call self.reset() at the start of train.
ResetForTrain_Skipped(ls, ws, fresh) == [ws |-> ws, log |-> <<>>]

ResetForTrain(ls, ws, fresh) == NetReset(ls, ws, fresh)

\* train after self._reset_bookkeeping(), which left self.iteration = it0,
\* and self.reset(), which returned r.
TrainAfterReset(c, acts, it0, r) ==
    TrainLoop(c, [raised |-> "none", ws |-> r.ws, acts |-> acts,
                  iteration |-> it0, log |-> r.log, epochs |-> <<>>], 0)

\* Network.train(patterns, iterations, error_break, pattern_select_func) on
\* the network n = [ls, ws, ni, no, acts, iteration, logging]; fresh are the
\* weights the layers draw in reset, sels the result of pattern_select_func
\* in each epoch.
NetTrain(n, patterns, iterations, error_break, select, fresh, sels) ==
    TrainAfterReset(
        [ls |-> n.ls, ni |-> n.ni, no |-> n.no, patterns |-> patterns,
         iterations |-> iterations, error_break |-> error_break,
         select |-> select, sels |-> sels,
         track |-> (error_break[1] # 0 \/ n.logging)],
        n.acts, _reset_bookkeeping(n.iteration),
        ResetForTrain(n.ls, n.ws, fresh))

(***************************************************************************)
(* transform.Perceptron.  A matrix is a sequence of rows.                  *)
(***************************************************************************)
Zeros(size) == [i \in 1..size[1] |-> [j \in 1..size[2] |-> 0]]

Shape(m) == <<Len(m), IF Len(m) = 0 THEN 0 ELSE Len(m[1])>>

\* numpy.dot(vec, m)
Dot(vec, m) ==
    [j \in 1..Shape(m)[2] |->
        Sum([i \in 1..Len(vec) |-> vec[i] * m[i][j]])]

\* numpy.dot(vec, m.T)
DotT(vec, m) ==
    [i \in 1..Len(m) |->
        Sum([j \in 1..Len(vec) |-> vec[j] * m[i][j]])]

\* inputs[:,None] * deltas
Outer(inputs, deltas) ==
    [i \in 1..Len(inputs) |-> [j \in 1..Len(deltas) |-> inputs[i] * deltas[j]]]

\* numpy.hstack((inputs, [1])) when the layer has a bias
WithBias(p, inputs) == IF p.bias THEN Append(inputs, 1) ELSE inputs

\* Perceptron.reset(): twice_random is 2*random_matrix, the doubled draws
\* of numpy.random.random.
PerceptronReset(p, twice_random) ==
    [p EXCEPT !.weights =
        [i \in 1..p.size[1] |-> [j \in 1..p.size[2] |->
            (twice_random[i][j] - 1) * p.initial_weights_range]]]

\* Perceptron.__init__(inputs, outputs, bias, learn_rate, momentum_rate,
\* initial_weights_range)
PerceptronInit(inputs, outputs, bias, learn_rate, momentum_rate, initial_weights_range, twice_random) ==
    LET size == IF bias THEN <<inputs + 1, outputs>> ELSE <<inputs, outputs>>
    IN  [PerceptronReset(
            [learn_rate |-> learn_rate, momentum_rate |-> momentum_rate,
             initial_weights_range |-> initial_weights_range, bias |-> bias,
             size |-> size, weights |-> Zeros(size), momentums |-> Zeros(size)],
            twice_random)
         EXCEPT !.momentums = Zeros(size)]

\* Perceptron.activate(inputs): [raised, ret]
PerceptronActivate(p, inputs) ==
    IF Len(WithBias(p, inputs)) # p.size[1]
    THEN [raised |-> "ValueError", ret |-> None]
    ELSE [raised |-> "none", ret |-> Dot(WithBias(p, inputs), p.weights)]

\* Perceptron.get_deltas(errors, outputs)
PerceptronGetDeltas(p, errors, outputs) ==
    [j \in 1..Len(errors) |-> errors[j] * outputs[j]]

\* Perceptron.get_errors(deltas, outputs)
PerceptronGetErrors(p, deltas, outputs) ==
    IF p.bias
    THEN SubSeq(DotT(deltas, p.weights), 1, Len(p.weights) - 1)
    ELSE DotT(deltas, p.weights)

\* Perceptron.update(inputs, deltas)
PerceptronUpdate(p, inputs, deltas) ==
    LET changes == Outer(WithBias(p, inputs), deltas)
    IN  [p EXCEPT !.weights =
            [i \in 1..p.size[1] |-> [j \in 1..p.size[2] |->
                p.weights[i][j] + p.learn_rate * changes[i][j]
                                + p.momentum_rate * p.momentums[i][j]]],
                  !.momentums = changes]

(***************************************************************************)
(* Inputs of the operations.                                               *)
(***************************************************************************)
Linear(ni, no) == LayerDesc(ni, no, NoTags, NoTags, NoTags)

Transfer == LayerDesc(ANY, ANY, NoTags, NoTags, NoTags)

Growing(ni, no) == LayerDesc(ni, no, NoTags, NoTags, {"supportsGrowing"})

\* Every sequence of at most MaxLayers objects.
AllLayerSeqs == SeqsUpTo(LayerKinds \cup {NotALayer}, MaxLayers)

\* The layer sequences the operations are exercised on: well-formed
\* networks, one whose lengths disagree across an 'any' layer, and two that
\* construction rejects.
Catalogue ==
    { <<Linear(1, 1)>>,
      <<Linear(1, 2), Transfer, Linear(2, 1)>>,
      <<Linear(1, 2), Transfer, Linear(1, 1)>>,
      <<Linear(1, 2), Linear(1, 1)>>,
      <<Growing(1, 1), Linear(1, 1)>> }

\* The weights a transform layer draws (a transfer layer holds 0).
InitWeights == {0, 1}

WeightChoices(ls) ==
    { ws \in [1..Len(ls) -> InitWeights \cup {0}] :
        \A k \in 1..Len(ls) : IsTransfer(ls[k]) => ws[k] = 0 }

InputVecs == {<<1>>, <<2>>, <<1, 1>>}

TargetVecs == {<<2>>, <<1, 1>>}

\* Patterns: (inputs, targets) pairs.
P1 == << <<1>>, <<1>> >>

P2 == << <<2>>, <<4>> >>

PatternLists == { <<>>, <<P1>>, <<P2>>, <<P1, P2>>, <<P2, P1>> }

ErrorBreaks == {<<0, 1>>, <<5, 2>>}

SelectFuncs ==
    { [name |-> "select_iterative", size |-> NoSize],
      [name |-> "select_sample", size |-> 1],
      [name |-> "select_sample", size |-> MaxSelect],
      [name |-> "select_random", size |-> 1] }

\* The arguments of train in the last call of a session, and in the calls
\* before it.
TrainArgs ==
    [patterns : PatternLists, iterations : 0..MaxIterations,
     error_break : ErrorBreaks, select : SelectFuncs]

EarlierTrainArgs ==
    [patterns : {<<P1, P2>>}, iterations : {2},
     error_break : {<<0, 1>>}, select : {[name |-> "select_iterative", size |-> NoSize]}]

(***************************************************************************)
(* The operations.                                                         *)
(***************************************************************************)
Fresh ==
    /\ built = FALSE
    /\ layers = <<>>
    /\ num_inputs = ANY
    /\ num_outputs = ANY
    /\ activations = <<>>
    /\ iteration = 0
    /\ logging = TRUE
    /\ weights = <<>>
    /\ op = "none"
    /\ arg = <<>>
    /\ ret = None
    /\ raised = "none"
    /\ calls = <<>>
    /\ epochs = <<>>
    /\ ncalls = 0

\* No Perceptron under consideration.
NoPerceptron ==
    /\ perceptron = [size |-> <<0, 0>>]
    /\ p_op = "none"
    /\ p_ret = None
    /\ p_raised = "none"
    /\ p_updates = 0

\* No RBF model under consideration.
NoRBF ==
    /\ rbf = None
    /\ r_op = "none"
    /\ r_arg = None
    /\ r_ret = None
    /\ r_log = <<>>
    /\ r_ncalls = 0

\* No regression model under consideration.
NoRegression ==
    /\ reg = None
    /\ g_op = "none"
    /\ g_arg = None
    /\ g_ret = None
    /\ g_raised = "none"
    /\ g_log = <<>>
    /\ g_ncalls = 0

\* No cross validation under consideration.
NoValidation ==
    /\ v_op = "none"
    /\ v_patterns = <<>>
    /\ v_num_sets = 0
    /\ v_sets = <<>>
    /\ v_pairs = <<>>

\* No protvecdiv call under consideration.
NoCalculate ==
    /\ c_op = "none"
    /\ c_vec_a = <<>>
    /\ c_vec_b = <<>>
    /\ c_ret = <<>>
    /\ c_raised = "none"

\* No Graph under consideration.
NoGraph ==
    /\ graph = None
    /\ h_op = "none"
    /\ h_arg = None
    /\ h_raised = "none"
    /\ h_before = None
    /\ h_ncalls = 0

Init == Fresh /\ NoPerceptron /\ NoRBF /\ NoRegression /\ NoValidation /\ NoCalculate /\ NoGraph

\* Network(layers), the layers holding the weights ws.
Construct(ls, ws) ==
    /\ ~built
    /\ op = "none"
    /\ op' = "__init__"
    /\ arg' = [layers |-> ls]
    /\ raised' = _validate_layers_sequence(ls)
    /\ ret' = None
    /\ calls' = <<>>
    /\ IF raised' = "none"
       THEN /\ built' = TRUE
            /\ layers' = ls
            /\ num_inputs' = _find_num_inputs(ls)
            /\ num_outputs' = _find_num_outputs(ls)
            /\ activations' = <<>>
            /\ logging' = TRUE
            /\ iteration' = 0
            /\ weights' = ws
       ELSE UNCHANGED <<built, layers, num_inputs, num_outputs, activations,
                        logging, iteration, weights>>
    /\ UNCHANGED <<epochs, ncalls>>

\* network.logging = b
SetLogging(b) ==
    /\ built
    /\ logging # b
    /\ logging' = b
    /\ UNCHANGED <<built, layers, num_inputs, num_outputs, activations,
                   iteration, weights, op, arg, ret, raised, calls, epochs,
                   ncalls>>

\* The effect of an operation that returned the record r.
Returns(r) ==
    /\ activations' = r.activations
    /\ weights' = r.weights
    /\ ret' = r.ret
    /\ raised' = r.raised
    /\ calls' = r.calls

Activate_Drifting(inputs) ==
    /\ built
    /\ ncalls < MaxCalls
    /\ Returns([weights |-> [k \in 1..Len(weights) |-> weights[k] + 1]] @@
               NetActivate(layers, weights, num_inputs, activations, inputs))
    /\ op' = "activate"
    /\ arg' = [inputs |-> inputs]
    /\ ncalls' = ncalls + 1
    /\ UNCHANGED <<built, layers, num_inputs, num_outputs, iteration, logging,
                   epochs>>

\* network.activate(inputs)
Activate(inputs) ==
    /\ built
    /\ ncalls < MaxCalls
    /\ Returns([weights |-> weights] @@
               NetActivate(layers, weights, num_inputs, activations, inputs))
    /\ op' = "activate"
    /\ arg' = [inputs |-> inputs]
    /\ ncalls' = ncalls + 1
    /\ UNCHANGED <<built, layers, num_inputs, num_outputs, iteration, logging,
                   epochs>>

\* network.update(inputs, targets)
Update(inputs, targets) ==
    /\ built
    /\ ncalls < MaxCalls
    /\ Returns(NetUpdate(layers, weights, num_inputs, num_outputs,
                         activations, inputs, targets))
    /\ op' = "update"
    /\ arg' = [inputs |-> inputs, targets |-> targets]
    /\ ncalls' = ncalls + 1
    /\ UNCHANGED <<built, layers, num_inputs, num_outputs, iteration, logging,
                   epochs>>

\* network.reset()
Reset(fresh) ==
    /\ built
    /\ ncalls < MaxCalls
    /\ Returns([weights |-> NetReset(layers, weights, fresh).ws,
                calls |-> NetReset(layers, weights, fresh).log,
                activations |-> activations, ret |-> None, raised |-> "none"])
    /\ op' = "reset"
    /\ arg' = <<>>
    /\ ncalls' = ncalls + 1
    /\ UNCHANGED <<built, layers, num_inputs, num_outputs, iteration, logging,
                   epochs>>

\* The effect of a train that ended in t.
TrainReturns(t) ==
    /\ Returns([weights |-> t.ws, activations |-> t.acts, ret |-> None,
                raised |-> t.raised, calls |-> t.log])
    /\ iteration' = t.iteration
    /\ epochs' = t.epochs

\* network.train(patterns, iterations, error_break, pattern_select_func)
Train(patterns, iterations, error_break, select, fresh, sels) ==
    /\ built
    /\ ncalls < MaxCalls
    /\ TrainReturns(NetTrain([ls |-> layers, ws |-> weights, ni |-> num_inputs,
                              no |-> num_outputs, acts |-> activations,
                              iteration |-> iteration, logging |-> logging],
                             patterns, iterations, error_break, select,
                             fresh, sels))
    /\ op' = "train"
    /\ arg' = [patterns |-> patterns, iterations |-> iterations,
               error_break |-> error_break, select |-> select]
    /\ ncalls' = ncalls + 1
    /\ UNCHANGED <<built, layers, num_inputs, num_outputs, logging>>

\* The results pattern_select_func may return in the epochs of one train.
SelsChoices(select, N, iterations) ==
    IF SelectRaises(select, N) THEN { <<>> }
    ELSE [1..iterations -> SelectResults(select, N)]

ConstructAny ==
    /\ ~built
    /\ op = "none"
    /\ \E ls \in AllLayerSeqs : Construct(ls, [k \in 1..Len(ls) |-> 1])
    /\ UNCHANGED exceptNet

ConstructNet ==
    /\ ~built
    /\ op = "none"
    /\ \E ls \in Catalogue : \E ws \in WeightChoices(ls) : Construct(ls, ws)
    /\ UNCHANGED exceptNet

DoSetLogging ==
    /\ built
    /\ ncalls = 0
    /\ \E b \in BOOLEAN : SetLogging(b)
    /\ UNCHANGED exceptNet

DoActivate ==
    /\ built
    /\ ncalls < MaxCalls
    /\ \E x \in InputVecs : Activate(x)
    /\ UNCHANGED exceptNet

DoUpdate ==
    /\ built
    /\ ncalls < MaxCalls
    /\ \E x \in InputVecs, t \in TargetVecs : Update(x, t)
    /\ UNCHANGED exceptNet

DoReset ==
    /\ built
    /\ ncalls < MaxCalls
    /\ \E fresh \in WeightChoices(layers) : Reset(fresh)
    /\ UNCHANGED exceptNet

DoTrain ==
    /\ built
    /\ ncalls < MaxCalls
    /\ \E a \in (IF ncalls + 1 = MaxCalls THEN TrainArgs ELSE EarlierTrainArgs),
          fresh \in WeightChoices(layers) :
         \E sels \in SelsChoices(a.select, Len(a.patterns), a.iterations) :
            Train(a.patterns, a.iterations, a.error_break, a.select, fresh, sels)
    /\ UNCHANGED exceptNet

\* The first call on a network just built.
ActivateOnce ==
    /\ built
    /\ ncalls = 0
    /\ Activate(<<1>>)
    /\ UNCHANGED exceptNet

NextBuild == ConstructAny \/ ActivateOnce

SpecBuild == Init /\ [][NextBuild]_vars

Next ==
    \/ ConstructNet
    \/ DoSetLogging
    \/ DoActivate
    \/ DoUpdate
    \/ DoReset
    \/ DoTrain

Spec == Init /\ [][Next]_vars

(***************************************************************************)
(* Properties of Network construction (under SpecBuild).                   *)
(***************************************************************************)
AllLayers(ls) == \A i \in 1..Len(ls) : ls[i].is_layer

\* Some adjacent pair has different fixed arities.
ArityMismatch(ls) ==
    \E i \in 1..(Len(ls) - 1) :
        /\ ls[i].num_outputs # ANY
        /\ ls[i + 1].num_inputs # ANY
        /\ ls[i].num_outputs # ls[i + 1].num_inputs

\* Some adjacent pair does not meet the other's tag requirements.
TagMismatch(ls) ==
    \E i \in 1..(Len(ls) - 1) :
        \/ ~(ls[i + 1].requires_prev \subseteq ls[i].attributes)
        \/ ~(ls[i].requires_next \subseteq ls[i + 1].attributes)

Constructing == op = "__init__" /\ AllLayers(arg.layers)

\* C1: for every sequence of layers, Network construction raises ValueError
\* if and only if some adjacent pair has different arities neither of which
\* is 'any', wherever in the chain the pair is.
C1_ArityCheck ==
    Constructing => (raised = "ValueError" <=> ArityMismatch(arg.layers))

\* A three-layer chain whose first pair is compatible and whose second pair
\* is not.
C1_Witness ==
    /\ Constructing
    /\ raised = "ValueError"
    /\ Len(arg.layers) = 3
    /\ ~ArityMismatch(SubSeq(arg.layers, 1, 2))

\* C2 as stated: construction raises TypeError if and only if some adjacent
\* pair is tag-incompatible.
C2_TypeErrorIffTagMismatch ==
    Constructing => (raised = "TypeError" <=> TagMismatch(arg.layers))

\* C2 as amended: a tag-incompatible pair always makes construction fail, in
\* the constructor (no network results and no operation has been called on
\* it); the exception is TypeError if and only if, moreover, no adjacent
\* pair mismatches in arity (the arity check runs first and raises
\* ValueError).
C2_TagCheck ==
    /\ Constructing =>
         /\ raised = "TypeError"
              <=> (TagMismatch(arg.layers) /\ ~ArityMismatch(arg.layers))
         /\ TagMismatch(arg.layers) =>
              (raised # "none" /\ ~built /\ ncalls = 0 /\ calls = <<>>)
    /\ ~built => (ncalls = 0 /\ op \in {"none", "__init__"})

\* Construction fails on a predecessor requirement alone.
C2_Witness ==
    /\ Constructing
    /\ raised = "TypeError"
    /\ ~built
    /\ \E i \in 1..(Len(arg.layers) - 1) :
          ~(arg.layers[i + 1].requires_prev \subseteq arg.layers[i].attributes)
    /\ \A i \in 1..(Len(arg.layers) - 1) :
          arg.layers[i].requires_next \subseteq arg.layers[i + 1].attributes

(***************************************************************************)
(* Properties of Network.update and Network.activate (under Spec).         *)
(***************************************************************************)
\* The position in the log of an update of the first call made on layer k
\* in the backward pass; n is the number of layers.
BackwardBase(n, k) == n + 3 * (n - k)

\* C3: in one update the forward pass (every layer's activate, the whole
\* trace recorded) comes before any backward call; the layers are then
\* visited in reverse, each with get_prev_errors, update, get_outputs in
\* that order, and get_prev_errors sees the weight the layer had before
\* its update.
C3_UpdateOrder ==
    (op = "update" /\ raised = "none") =>
        LET n == Len(layers)
        IN  /\ Len(calls) = 4 * n
            /\ Len(activations) = n + 1
            /\ \A k \in 1..n :
                 /\ calls[k].m = "activate" /\ calls[k].k = k
                 /\ calls[BackwardBase(n, k) + 1].m = "get_prev_errors"
                 /\ calls[BackwardBase(n, k) + 2].m = "update"
                 /\ calls[BackwardBase(n, k) + 3].m = "get_outputs"
                 /\ \A d \in 1..3 : calls[BackwardBase(n, k) + d].k = k
                 /\ calls[BackwardBase(n, k) + 1].w = calls[k].w
                 /\ calls[BackwardBase(n, k) + 2].w = calls[k].w
                 /\ calls[BackwardBase(n, k) + 3].w = weights[k]

\* An update of three layers that changed a weight.
C3_Witness ==
    /\ op = "update"
    /\ raised = "none"
    /\ Len(layers) = 3
    /\ \E k \in 1..Len(layers) : calls[k].w # weights[k]

\* C4: after a successful activate(x) on n layers the trace has n + 1
\* elements, the first is x, each next one is the output of the layer on
\* the element before it, and the value returned is the last; nothing of an
\* earlier trace remains.
C4_Trace ==
    (op = "activate" /\ raised = "none") =>
        LET n == Len(layers)
        IN  /\ Len(activations) = n + 1
            /\ activations[1] = arg.inputs
            /\ \A k \in 1..n :
                 /\ LayerActivate(layers[k], weights[k], activations[k]).ok
                 /\ activations[k + 1] =
                      LayerActivate(layers[k], weights[k], activations[k]).v
            /\ ret = activations[n + 1]

\* A second call on three layers, made when a trace was already held.
C4_Witness ==
    /\ op = "activate"
    /\ raised = "none"
    /\ ncalls = 2
    /\ Len(layers) = 3

\* An operation of the network is being called with these arguments.
Calling(name) == op' = name /\ ncalls' = ncalls + 1

WrongInputs(x) == num_inputs # ANY /\ Len(x) # num_inputs

WrongTargets(t) == num_outputs # ANY /\ Len(t) # num_outputs

\* C8: activate with an input whose length is not the fixed num_inputs
\* raises ValueError at once: no layer is activated and the trace stays as
\* it was.
C8_ActivateRejects ==
    [][ (Calling("activate") /\ WrongInputs(arg'.inputs)) =>
          /\ raised' = "ValueError"
          /\ calls' = <<>>
          /\ activations' = activations
          /\ weights' = weights ]_vars

\* A rejected activate that left an earlier trace in place.
C8_Witness ==
    /\ op = "activate"
    /\ raised = "ValueError"
    /\ WrongInputs(arg.inputs)
    /\ calls = <<>>
    /\ activations # <<>>

\* C9: update with targets whose length is not the fixed num_outputs, or
\* with valid targets and an input of the wrong length, raises ValueError
\* before the forward pass: no layer is activated or updated, no weight
\* changes and the trace stays as it was.
C9_UpdateRejects ==
    [][ (/\ Calling("update")
         /\ \/ WrongTargets(arg'.targets)
            \/ WrongInputs(arg'.inputs)) =>
          /\ raised' = "ValueError"
          /\ calls' = <<>>
          /\ activations' = activations
          /\ weights' = weights ]_vars

\* A rejected update, of wrong targets and valid inputs, that left an
\* earlier trace in place.
C9_Witness ==
    /\ op = "update"
    /\ raised = "ValueError"
    /\ WrongTargets(arg.targets)
    /\ ~WrongInputs(arg.inputs)
    /\ calls = <<>>
    /\ activations # <<>>

(***************************************************************************)
(* Properties of Network.train (under Spec).                               *)
(***************************************************************************)
RECURSIVE FracSum(_)
FracSum(q) == IF q = <<>> THEN FracZero ELSE FracAdd(q[1], FracSum(Tail(q)))

\* The mean, over the patterns selected in epoch ep, of the mean squared
\* errors update returned.
SelectedMean(ep) ==
    <<FracSum(ep.mses)[1], FracSum(ep.mses)[2] * Len(ep.selected)>>

Below(ep, error_break) ==
    Len(ep.selected) > 0 /\ FracLess(SelectedMean(ep), error_break)

\* The number of update calls in the log: each starts with the activate of
\* layer 1.
UpdatesLogged ==
    Cardinality({j \in 1..Len(calls) : calls[j].m = "activate" /\ calls[j].k = 1})

RECURSIVE TotalSelected(_)
TotalSelected(eps) ==
    IF eps = <<>> THEN 0 ELSE Len(eps[1].selected) + TotalSelected(Tail(eps))

\* C5 as stated: a train on a non-empty pattern list, whose pattern
\* selection and updates are well formed, returns without raising; it
\* returns right after the first epoch whose mean error is below
\* error_break, with no further update, and otherwise runs exactly
\* `iterations` epochs; for iterations >= 1 the counter stays in
\* 0..iterations-1 and ends at the index of the last epoch run.
C5_TrainTerminates ==
    (op = "train" /\ arg.patterns # <<>> /\ raised # "ValueError") =>
        /\ raised = "none"
        /\ Len(epochs) <= arg.iterations
        /\ \A i \in 1..Len(epochs) :
             Below(epochs[i], arg.error_break) => i = Len(epochs)
        /\ Len(epochs) < arg.iterations =>
             (Len(epochs) >= 1 /\ Below(epochs[Len(epochs)], arg.error_break))
        /\ UpdatesLogged = TotalSelected(epochs)
        /\ arg.iterations >= 1 =>
             /\ iteration \in 0..(arg.iterations - 1)
             /\ iteration = Len(epochs) - 1
             /\ \A i \in 1..Len(epochs) : epochs[i].iteration = i - 1

\* C6 as stated: the epoch error train compares against error_break is the
\* mean, over the patterns selected for the epoch, of the mean squared
\* errors update returned, whatever the size of the selection.
C6_EpochErrorIsMean ==
    op = "train" =>
        \A i \in 1..Len(epochs) :
            (epochs[i].tracked /\ Len(epochs[i].selected) > 0) =>
                FracEq(epochs[i].error, SelectedMean(epochs[i]))

FreshWeight(l, w) == IF IsTransfer(l) THEN w = 0 ELSE w \in InitWeights

\* C7: every train sets iteration to 0 and calls reset() on every layer
\* before its first update, whatever was called before: the log starts with
\* the reset of each layer, no reset follows, the first forward pass sees
\* freshly drawn weights and the first epoch is numbered 0; with
\* iterations = 0 the layers are reset and nothing else is called.
C7_TrainResets ==
    op = "train" =>
        LET n == Len(layers)
        IN  /\ Len(calls) >= n
            /\ \A k \in 1..n : calls[k].m = "reset" /\ calls[k].k = k
            /\ \A j \in (n + 1)..Len(calls) : calls[j].m # "reset"
            /\ \A k \in 1..n :
                 n + k <= Len(calls) =>
                    /\ calls[n + k].m = "activate"
                    /\ calls[n + k].k = k
                    /\ FreshWeight(layers[k], calls[n + k].w)
            /\ Len(epochs) >= 1 => epochs[1].iteration = 0
            /\ arg.iterations = 0 =>
                 /\ iteration = 0
                 /\ Len(calls) = n
                 /\ \A k \in 1..n : FreshWeight(layers[k], weights[k])

\* A train that ran an epoch on layers an earlier call had moved away from
\* their initial weights.
C7_Witness ==
    /\ op = "train"
    /\ ncalls = 2
    /\ Len(epochs) >= 1
    /\ \E k \in 1..Len(layers) :
          calls[k].m = "reset" /\ ~FreshWeight(layers[k], calls[k].w)

(***************************************************************************)
(* The Perceptron on its own.                                              *)
(***************************************************************************)
PercSizes == {1, 2}

PercVals == {-1, 1}

\* The doubled draws of numpy.random.random for a matrix of this size.
TwiceRandom(size) == [1..size[1] -> [1..size[2] -> {0, 1}]]

\* Perceptron(inputs, 1, bias, 1, 1, 1) just constructed.
InitPerceptron ==
    /\ Fresh
    /\ NoRBF
    /\ NoRegression
    /\ NoValidation
    /\ NoCalculate
    /\ NoGraph
    /\ \E inputs \in PercSizes, bias \in BOOLEAN :
         \E twice_random \in
              TwiceRandom(IF bias THEN <<inputs + 1, 1>> ELSE <<inputs, 1>>) :
            perceptron = PerceptronInit(inputs, 1, bias, 1, 1, 1, twice_random)
    /\ p_op = "__init__"
    /\ p_ret = None
    /\ p_raised = "none"
    /\ p_updates = 0

\* The vectors of length n.
Vecs(n) == [1..n -> PercVals]

\* perceptron.activate(inputs)
PActivate ==
    \E n \in PercSizes : \E inputs \in Vecs(n) :
        /\ p_op' = "activate"
        /\ p_raised' = PerceptronActivate(perceptron, inputs).raised
        /\ p_ret' = PerceptronActivate(perceptron, inputs).ret
        /\ UNCHANGED <<perceptron, p_updates>>
        /\ UNCHANGED exceptPerc

\* perceptron.get_errors(perceptron.get_deltas(errors, outputs), outputs)
PGetErrors ==
    \E errors \in Vecs(perceptron.size[2]), outputs \in Vecs(perceptron.size[2]) :
        /\ p_op' = "get_errors"
        /\ p_raised' = "none"
        /\ p_ret' = PerceptronGetErrors(perceptron,
                        PerceptronGetDeltas(perceptron, errors, outputs), outputs)
        /\ UNCHANGED <<perceptron, p_updates>>
        /\ UNCHANGED exceptPerc

\* perceptron.update(inputs, deltas), the vectors of the layer's lengths.
PUpdate ==
    /\ p_updates < MaxUpdates
    /\ \E inputs \in Vecs(IF perceptron.bias THEN perceptron.size[1] - 1
                          ELSE perceptron.size[1]),
          deltas \in Vecs(perceptron.size[2]) :
        /\ perceptron' = PerceptronUpdate(perceptron, inputs, deltas)
        /\ p_op' = "update"
        /\ p_raised' = "none"
        /\ p_ret' = None
        /\ p_updates' = p_updates + 1
        /\ UNCHANGED exceptPerc

\* perceptron.reset()
PReset ==
    \E twice_random \in TwiceRandom(perceptron.size) :
        /\ perceptron' = PerceptronReset(perceptron, twice_random)
        /\ p_op' = "reset"
        /\ p_raised' = "none"
        /\ p_ret' = None
        /\ UNCHANGED p_updates
        /\ UNCHANGED exceptPerc

NextPerceptron ==
    \/ PActivate
    \/ PGetErrors
    \/ PUpdate
    \/ PReset

SpecPerceptron == InitPerceptron /\ [][NextPerceptron]_vars

(***************************************************************************)
(* Properties of Perceptron.reset (under SpecPerceptron).                  *)
(***************************************************************************)
\* C10 as stated: reset() reinitializes the training-only accumulators with
\* the weights: after a reset the momentum buffer is zero, as it was at
\* construction, and the weight matrix has its shape.
C10_ResetClearsMomentum ==
    p_op = "reset" =>
        /\ perceptron.momentums = Zeros(perceptron.size)
        /\ Shape(perceptron.weights) = perceptron.size

(***************************************************************************)
(* Floating-point numbers.  A number is a pair <<n, d>>: the fraction n/d  *)
(* in lowest terms with d > 0, or one of the special values of IEEE        *)
(* arithmetic, <<1, 0>> (inf), <<-1, 0>> (-inf) and <<0, 0>> (NaN).        *)
(***************************************************************************)
Abs(x) == IF x < 0 THEN -x ELSE x

RECURSIVE GCD(_, _)
GCD(a, b) == IF b = 0 THEN a ELSE GCD(b, a % b)

Norm(n, d) ==
    IF d = 0 THEN <<Sgn(n), 0>>
    ELSE <<(Sgn(d) * n) \div GCD(Abs(n), Abs(d)), Abs(d) \div GCD(Abs(n), Abs(d))>>

Num(i) == <<i, 1>>

NaN == <<0, 0>>

IsFinite(a) == a[2] # 0

NumAdd(a, b) ==
    IF a[2] = 0 /\ b[2] = 0 THEN (IF a = b THEN a ELSE NaN)
    ELSE Norm(a[1] * b[2] + b[1] * a[2], a[2] * b[2])

NumSub(a, b) == NumAdd(a, <<-b[1], b[2]>>)

NumMul(a, b) == Norm(a[1] * b[1], a[2] * b[2])

\* a / b as numpy divides arrays: x/0 is inf or -inf, 0/0 is NaN, and no
\* exception is raised.
NumDiv(a, b) == Norm(a[1] * b[2], a[2] * b[1])

\* a < b; every comparison with NaN is false.
NumLess(a, b) ==
    IF a = NaN \/ b = NaN THEN FALSE
    ELSE IF a[2] = 0 /\ b[2] = 0 THEN a[1] < b[1]
    ELSE IF a[2] = 0 THEN a[1] < 0
    ELSE IF b[2] = 0 THEN b[1] > 0
    ELSE a[1] * b[2] < b[1] * a[2]

RECURSIVE NumSum(_)
NumSum(v) == IF v = <<>> THEN Num(0) ELSE NumAdd(v[1], NumSum(Tail(v)))

\* numpy.mean(v**2)
NumMeanSq(v) ==
    NumDiv(NumSum([j \in 1..Len(v) |-> NumMul(v[j], v[j])]), Num(Len(v)))

(***************************************************************************)
(* The sub-models of an RBF model (rbf.py).  The clustering sub-model      *)
(* (SOM) holds one centre per cluster, on a line; the output stage         *)
(* (mlp.Perceptron) holds a weight per cluster and output.                 *)
(***************************************************************************)
\* SOM.activate(inputs): the distance of the input to each centre.
SomActivate(centers, inputs) ==
    [k \in 1..Len(centers) |-> Abs(inputs[1] - centers[k])]

\* The cluster closest to the input, the first of them.
SomWinner(centers, inputs) ==
    CHOOSE k \in 1..Len(centers) :
        /\ \A m \in 1..Len(centers) :
              SomActivate(centers, inputs)[k] <= SomActivate(centers, inputs)[m]
        /\ \A m \in 1..(k - 1) :
              SomActivate(centers, inputs)[m] > SomActivate(centers, inputs)[k]

\* SOM.train_step(input_matrix, target_matrix): each row moves the closest
\* centre onto it.
RECURSIVE SomTrainStep(_, _)
SomTrainStep(centers, input_matrix) ==
    IF input_matrix = <<>> THEN centers
    ELSE SomTrainStep(
            [centers EXCEPT ![SomWinner(centers, input_matrix[1])] = input_matrix[1][1]],
            Tail(input_matrix))

\* SOM.train(input_matrix, target_matrix, iterations, ...)
RECURSIVE SomTrain(_, _, _)
SomTrain(centers, input_matrix, iterations) ==
    IF iterations = 0 THEN centers
    ELSE SomTrain(SomTrainStep(centers, input_matrix), input_matrix, iterations - 1)

\* transfer.gaussian(x, variance) = exp(-(x**2/variance)), where it is
\* exact: 1 at distance 0, and 0 where x**2/variance is beyond 745 and exp
\* underflows.  Distances are 0 or at least Far.
gaussian(x, variance) == IF x = 0 THEN Num(1) ELSE Num(0)

\* Perceptron.activate(inputs) of the output stage: numpy.dot(inputs, weights)
MlpActivate(wm, inputs) ==
    [j \in 1..Len(wm[1]) |->
        NumSum([k \in 1..Len(wm) |-> NumMul(inputs[k], wm[k][j])])]

\* Perceptron.update(inputs, outputs, errors) of the output stage, the
\* gradient being the error vector.
MlpUpdate(wm, learn_rate, inputs, outputs, errors) ==
    [k \in 1..Len(wm) |-> [j \in 1..Len(wm[k]) |->
        NumAdd(wm[k][j], NumMul(Num(learn_rate), NumMul(inputs[k], errors[j])))]]

(***************************************************************************)
(* RBF (rbf.py).                                                           *)
(***************************************************************************)
\* One entry of the log of an RBF method: a call e on a sub-model, with the
\* sample, the state of the sub-models when it was made (centers, w), and
\* for an update of the output stage its three arguments, the total
\* similarity the increment divided by (None if it did not divide) and the
\* value the increment returned.
Event(e, inputs, target, centers, w, similarities, total, output, errors, result) ==
    [e |-> e, inputs |-> inputs, target |-> target, centers |-> centers, w |-> w,
     similarities |-> similarities, total |-> total, output |-> output,
     errors |-> errors, ret |-> result]

\* A call on the clustering sub-model.
SomEvent(e, input_matrix, centers) ==
    Event(e, input_matrix, None, centers, None, None, None, None, None, None)

\* RBF.__init__(1, num_clusters, num_outputs, learn_rate, variance,
\* scale_by_similarity, pre_train_clusters), the sub-models having drawn
\* centers and weights.
RBFInit(centers, wm, learn_rate, variance, scale_by_similarity, pre_train_clusters) ==
    [pre_train_clusters |-> pre_train_clusters,
     centers |-> centers,
     variance |-> variance,
     learn_rate |-> learn_rate,
     weights |-> wm,
     scale_by_similarity |-> scale_by_similarity,
     similarities |-> None,
     total_similarity |-> None]

\* RBF.reset()
RBFReset(r, centers, wm) ==
    [r EXCEPT !.centers = centers, !.weights = wm,
              !.similarities = None, !.total_similarity = None]

\* The similarity vector of an input: line 50.
Similarities(r, inputs) ==
    [k \in 1..Len(r.centers) |->
        gaussian(SomActivate(r.centers, inputs)[k], r.variance)]

\* RBF.activate, lines 53-59, the similarities being cached: r is the model
\* with self._similarities assigned.
RBFActivateCached(r) ==
    IF r.scale_by_similarity
    THEN [rbf |-> [r EXCEPT !.total_similarity = NumSum(r.similarities)],
          ret |-> [j \in 1..Len(r.weights[1]) |->
                     NumDiv(MlpActivate(r.weights, r.similarities)[j],
                            NumSum(r.similarities))]]
    ELSE [rbf |-> r, ret |-> MlpActivate(r.weights, r.similarities)]

\* RBF.activate(inputs): [rbf, ret]
RBFActivate(r, inputs) ==
    RBFActivateCached([r EXCEPT !.similarities = Similarities(r, inputs)])

\* RBF._train_increment, lines 109-116: a is what the activate of line 105
\* left and returned, error_vec is target_vec - output, scaled is the error
\* vector handed to the output stage.
RBFIncrementUpdate(a, input_vec, target_vec, error_vec, scaled) ==
    [rbf |-> [a.rbf EXCEPT !.weights =
                MlpUpdate(a.rbf.weights, a.rbf.learn_rate, a.rbf.similarities,
                          a.ret, scaled)],
     ret |-> NumMeanSq(error_vec),
     log |-> << Event("perceptron.update", input_vec, target_vec, a.rbf.centers,
                      a.rbf.weights, a.rbf.similarities,
                      IF a.rbf.scale_by_similarity THEN a.rbf.total_similarity ELSE None,
                      a.ret, scaled, NumMeanSq(error_vec)) >>]

RBFIncrementAfterActivate(a, input_vec, target_vec, error_vec) ==
    RBFIncrementUpdate(a, input_vec, target_vec, error_vec,
        IF a.rbf.scale_by_similarity
        THEN [j \in 1..Len(error_vec) |-> NumDiv(error_vec[j], a.rbf.total_similarity)]
        ELSE error_vec)

RBFIncrementWith(a, input_vec, target_vec) ==
    RBFIncrementAfterActivate(a, input_vec, target_vec,
        [j \in 1..Len(target_vec) |-> NumSub(target_vec[j], a.ret[j])])

\* The increment that activates only when nothing is cached.
RBFTrainIncrement_StaleCache(r, input_vec, target_vec) ==
    IF r.similarities = None
    THEN RBFIncrementWith(RBFActivate(r, input_vec), input_vec, target_vec)
    ELSE RBFIncrementWith(RBFActivateCached(r), input_vec, target_vec)

\* RBF._train_increment(input_vec, target_vec): [rbf, ret, log]
RBFTrainIncrement(r, input_vec, target_vec) ==
    RBFIncrementWith(RBFActivate(r, input_vec), input_vec, target_vec)

\* Model.train_step(input_matrix, target_matrix), the base step: one
\* increment per row, the mean of their errors returned.  st is
\* [rbf, sum, log].
BaseStepAfterIncrement(st, inc) ==
    [rbf |-> inc.rbf, sum |-> NumAdd(st.sum, inc.ret), log |-> st.log \o inc.log]

RECURSIVE BaseTrainStepLoop(_, _, _, _)
BaseTrainStepLoop(st, input_matrix, target_matrix, i) ==
    IF i > Len(input_matrix) THEN st
    ELSE BaseTrainStepLoop(
            BaseStepAfterIncrement(st,
                RBFTrainIncrement(st.rbf, input_matrix[i], target_matrix[i])),
            input_matrix, target_matrix, i + 1)

BaseTrainStepResult(st, n) ==
    [rbf |-> st.rbf, ret |-> NumDiv(st.sum, Num(n)), log |-> st.log]

BaseTrainStep(r, input_matrix, target_matrix) ==
    BaseTrainStepResult(
        BaseTrainStepLoop([rbf |-> r, sum |-> Num(0), log |-> <<>>],
                          input_matrix, target_matrix, 1),
        Len(input_matrix))

\* RBF.train_step, line 95 on: b is what the base step left and returned.
RBFTrainStepAfterBase_SomFirst(b, before, input_matrix) ==
    [rbf |-> [b.rbf EXCEPT !.centers = SomTrainStep(b.rbf.centers, input_matrix)],
     ret |-> b.ret,
     log |-> << SomEvent("som.train_step", input_matrix, before) >> \o b.log]

RBFTrainStepAfterBase(b, before, input_matrix) ==
    [rbf |-> [b.rbf EXCEPT !.centers = SomTrainStep(b.rbf.centers, input_matrix)],
     ret |-> b.ret,
     log |-> b.log \o << SomEvent("som.train_step", input_matrix, b.rbf.centers) >>]

\* RBF.train_step(input_matrix, target_matrix): [rbf, ret, log]
RBFTrainStep(r, input_matrix, target_matrix) ==
    RBFTrainStepAfterBase(BaseTrainStep(r, input_matrix, target_matrix),
                          r.centers, input_matrix)

\* Model.train(input_matrix, target_matrix, iterations, error_break), the
\* base training procedure: train_step until the error is below error_break
\* or the iterations are used up.  t is [rbf, log, steps].
BaseTrainAfterStep(t, s) ==
    [rbf |-> s.rbf, log |-> t.log \o s.log,
     steps |-> Append(t.steps, s.ret)]

RECURSIVE BaseTrainLoop(_, _, _, _, _)
BaseTrainLoop(t, input_matrix, target_matrix, iterations, error_break) ==
    IF Len(t.steps) >= iterations THEN t
    ELSE IF t.steps # <<>> /\ NumLess(t.steps[Len(t.steps)], error_break) THEN t
    ELSE BaseTrainLoop(
            BaseTrainAfterStep(t, RBFTrainStep(t.rbf, input_matrix, target_matrix)),
            input_matrix, target_matrix, iterations, error_break)

\* RBF.train, lines 76-78: the model and the log after the optional
\* pre-training of the clusters.
PreTrain(r, input_matrix, iterations) ==
    IF r.pre_train_clusters
    THEN [rbf |-> [r EXCEPT !.centers = SomTrain(r.centers, input_matrix, iterations)],
          log |-> << SomEvent("som.train", input_matrix, r.centers) >>,
          steps |-> <<>>]
    ELSE [rbf |-> r, log |-> <<>>, steps |-> <<>>]

\* RBF.train(input_matrix, target_matrix, iterations, error_break):
\* [rbf, log, steps]
RBFTrain(r, input_matrix, target_matrix, iterations, error_break) ==
    BaseTrainLoop(PreTrain(r, input_matrix, iterations),
                  input_matrix, target_matrix, iterations, error_break)

(***************************************************************************)
(* The RBF model on its own.                                               *)
(***************************************************************************)
\* Positions on the line: two points so far apart that the similarity of
\* one to the other underflows to 0.
Points == {0, 100}

ClusterCounts == {1, 2}

\* What the sub-models draw at construction and at reset: a centre per
\* cluster, and one weight shared by the clusters (one output).
CenterChoices(n) == [1..n -> Points]

WeightMatrices(n) == {[k \in 1..n |-> <<Num(w)>>] : w \in {0, 1}}

\* Samples: (input_vec, target_vec) pairs, and batches of them.
Samples == { << <<0>>, <<Num(1)>> >>, << <<100>>, <<Num(2)>> >> }

Batches ==
    { <<a>> : a \in Samples } \cup { q \in Samples \X Samples : q[1] # q[2] }

InputMatrix(batch) == [i \in 1..Len(batch) |-> batch[i][1]]

TargetMatrix(batch) == [i \in 1..Len(batch) |-> batch[i][2]]

RbfErrorBreaks == {Num(0), <<1, 2>>}

\* RBF(1, n, 1, learn_rate=1, variance=1, scale_by_similarity,
\* pre_train_clusters) just constructed.
InitRBF ==
    /\ Fresh
    /\ NoPerceptron
    /\ NoRegression
    /\ NoValidation
    /\ NoCalculate
    /\ NoGraph
    /\ \E n \in ClusterCounts, scale \in BOOLEAN, pre \in BOOLEAN :
         \E centers \in CenterChoices(n), wm \in WeightMatrices(n) :
            rbf = RBFInit(centers, wm, 1, 1, scale, pre)
    /\ r_op = "__init__"
    /\ r_arg = None
    /\ r_ret = None
    /\ r_log = <<>>
    /\ r_ncalls = 0

\* rbf.activate(inputs)
RActivate ==
    /\ r_ncalls < MaxCalls
    /\ \E x \in Points :
        /\ rbf' = RBFActivate(rbf, <<x>>).rbf
        /\ r_ret' = RBFActivate(rbf, <<x>>).ret
        /\ r_arg' = [inputs |-> <<x>>]
    /\ r_op' = "activate"
    /\ r_log' = <<>>
    /\ r_ncalls' = r_ncalls + 1
    /\ UNCHANGED exceptRBF

\* rbf.reset()
RReset ==
    /\ r_ncalls < MaxCalls
    /\ \E centers \in CenterChoices(Len(rbf.centers)),
          wm \in WeightMatrices(Len(rbf.centers)) :
        rbf' = RBFReset(rbf, centers, wm)
    /\ r_op' = "reset"
    /\ r_arg' = None
    /\ r_ret' = None
    /\ r_log' = <<>>
    /\ r_ncalls' = r_ncalls + 1
    /\ UNCHANGED exceptRBF

RTrainStepReturns(batch, s) ==
    /\ rbf' = s.rbf
    /\ r_ret' = s.ret
    /\ r_log' = s.log
    /\ r_arg' = [input_matrix |-> InputMatrix(batch), target_matrix |-> TargetMatrix(batch)]

\* rbf.train_step(input_matrix, target_matrix)
RTrainStep ==
    /\ r_ncalls < MaxCalls
    /\ \E batch \in Batches :
        RTrainStepReturns(batch,
            RBFTrainStep(rbf, InputMatrix(batch), TargetMatrix(batch)))
    /\ r_op' = "train_step"
    /\ r_ncalls' = r_ncalls + 1
    /\ UNCHANGED exceptRBF

RTrainReturns(batch, iterations, error_break, t) ==
    /\ rbf' = t.rbf
    /\ r_ret' = t.steps
    /\ r_log' = t.log
    /\ r_arg' = [input_matrix |-> InputMatrix(batch), target_matrix |-> TargetMatrix(batch),
                 iterations |-> iterations, error_break |-> error_break]

\* rbf.train(input_matrix, target_matrix, iterations, error_break); r_ret
\* holds the errors its train_steps returned.
RTrain ==
    /\ r_ncalls < MaxCalls
    /\ \E batch \in Batches, iterations \in {0, MaxIterations},
          error_break \in RbfErrorBreaks :
        RTrainReturns(batch, iterations, error_break,
            RBFTrain(rbf, InputMatrix(batch), TargetMatrix(batch),
                     iterations, error_break))
    /\ r_op' = "train"
    /\ r_ncalls' = r_ncalls + 1
    /\ UNCHANGED exceptRBF

NextRBF ==
    \/ RActivate
    \/ RReset
    \/ RTrainStep
    \/ RTrain

SpecRBF == InitRBF /\ [][NextRBF]_vars

(***************************************************************************)
(* Properties of the RBF model (under SpecRBF).                            *)
(***************************************************************************)
\* C11 as stated: after every activate, whatever scale_by_similarity is,
\* both cached fields are those of that call: _similarities is the
\* similarity vector of the call's input and _total_similarity its sum.
C11_CachesOfThisCall ==
    r_op = "activate" =>
        /\ rbf.similarities = Similarities(rbf, r_arg.inputs)
        /\ rbf.total_similarity = NumSum(Similarities(rbf, r_arg.inputs))

AllFinite(v) == \A j \in 1..Len(v) : IsFinite(v[j])

AllZero(v) == \A j \in 1..Len(v) : v[j] = Num(0)

\* C12 as stated: with scale_by_similarity on and a total similarity of
\* zero, the division in activate and the rescaling of the error in
\* _train_increment give the fallback 0, and no NaN or infinity results.
C12_SafeDivision ==
    /\ (/\ r_op = "activate"
        /\ rbf.scale_by_similarity
        /\ rbf.total_similarity = Num(0)) =>
            (AllFinite(r_ret) /\ AllZero(r_ret))
    /\ \A i \in 1..Len(r_log) :
         (/\ r_log[i].e = "perceptron.update"
          /\ rbf.scale_by_similarity
          /\ r_log[i].total = Num(0)) =>
            (AllFinite(r_log[i].errors) /\ AllZero(r_log[i].errors))

\* The number of log entries before the first train_step of a train.
PreTrainEntries == IF rbf.pre_train_clusters THEN 1 ELSE 0

\* The entries from position off on are one train_step on the batch: the
\* output stage's update for each row in order, then one training step of
\* the clusters on the same batch, made while the centres were still those
\* the updates saw; result is the mean of the errors of the increments.
IsTrainStepBlock(off, input_matrix, target_matrix, result) ==
    LET n == Len(input_matrix)
    IN  /\ Len(r_log) >= off + n + 1
        /\ \A i \in 1..n :
             /\ r_log[off + i].e = "perceptron.update"
             /\ r_log[off + i].inputs = input_matrix[i]
             /\ r_log[off + i].target = target_matrix[i]
             /\ r_log[off + i].centers = r_log[off + n + 1].centers
        /\ r_log[off + n + 1].e = "som.train_step"
        /\ r_log[off + n + 1].inputs = input_matrix
        /\ result = NumDiv(NumSum([i \in 1..n |-> r_log[off + i].ret]), Num(n))

\* C17: train runs the clusters' train first when pre_train_clusters is set
\* and never otherwise; every train_step runs the base step (the output
\* stage) first and then exactly one training step of the clusters on the
\* same batch, and returns the base step's error.
C17_TrainingPhases ==
    /\ r_op = "train_step" =>
         /\ Len(r_log) = Len(r_arg.input_matrix) + 1
         /\ IsTrainStepBlock(0, r_arg.input_matrix, r_arg.target_matrix, r_ret)
    /\ r_op = "train" =>
         LET n == Len(r_arg.input_matrix)
         IN  /\ Len(r_log) = PreTrainEntries + Len(r_ret) * (n + 1)
             /\ rbf.pre_train_clusters =>
                  (r_log[1].e = "som.train" /\ r_log[1].inputs = r_arg.input_matrix)
             /\ \A i \in (PreTrainEntries + 1)..Len(r_log) : r_log[i].e # "som.train"
             /\ \A b \in 1..Len(r_ret) :
                  IsTrainStepBlock(PreTrainEntries + (b - 1) * (n + 1),
                                   r_arg.input_matrix, r_arg.target_matrix, r_ret[b])

\* A train with pre-training that ran two steps on a batch of two rows.
C17_Witness ==
    /\ r_op = "train"
    /\ rbf.pre_train_clusters
    /\ Len(r_ret) = 2
    /\ Len(r_arg.input_matrix) = 2

\* What an increment on this sample computes when the sub-models are in
\* the state the entry records.
EventSimilarities(ev) ==
    [k \in 1..Len(ev.centers) |->
        gaussian(Abs(ev.inputs[1] - ev.centers[k]), rbf.variance)]

EventOutput(ev) ==
    IF rbf.scale_by_similarity
    THEN [j \in 1..Len(ev.w[1]) |->
            NumDiv(MlpActivate(ev.w, EventSimilarities(ev))[j],
                   NumSum(EventSimilarities(ev)))]
    ELSE MlpActivate(ev.w, EventSimilarities(ev))

EventError(ev) ==
    [j \in 1..Len(ev.target) |-> NumSub(ev.target[j], EventOutput(ev)[j])]

\* C18: in every _train_increment the similarity vector and the total
\* similarity are those of the increment's own sample; the output stage's
\* update receives that vector, the output for the sample, and the error
\* target - output, divided by that total when scaling is on; the value
\* returned is the mean squared error before the division.
C18_IncrementUsesOwnCache ==
    \A i \in 1..Len(r_log) :
        r_log[i].e = "perceptron.update" =>
            /\ r_log[i].similarities = EventSimilarities(r_log[i])
            /\ r_log[i].output = EventOutput(r_log[i])
            /\ r_log[i].ret = NumMeanSq(EventError(r_log[i]))
            /\ IF rbf.scale_by_similarity
               THEN /\ r_log[i].total = NumSum(EventSimilarities(r_log[i]))
                    /\ r_log[i].errors =
                         [j \in 1..Len(r_log[i].target) |->
                            NumDiv(EventError(r_log[i])[j],
                                   NumSum(EventSimilarities(r_log[i])))]
               ELSE r_log[i].errors = EventError(r_log[i])

\* A scaled train_step whose two increments had different similarity
\* vectors with a non-zero total, the error being rescaled.
C18_Witness ==
    /\ r_op = "train_step"
    /\ rbf.scale_by_similarity
    /\ Len(r_log) = 3
    /\ r_log[1].similarities # r_log[2].similarities
    /\ r_log[1].total = Num(2)
    /\ AllFinite(r_log[1].errors)
    /\ r_log[1].errors # EventError(r_log[1])

(***************************************************************************)
(* RegressionModel and LinearRegressionModel (regression.py).  A matrix is *)
(* a sequence of rows, a flat vector a sequence.  No penalty function is   *)
(* set (penalty_func=None).                                                *)
(***************************************************************************)
\* reduce(operator.mul, shape)
Count(shape) == shape[1] * shape[2]

\* matrix.ravel()
Ravel(m) ==
    [n \in 1..Count(Shape(m)) |->
        m[((n - 1) \div Shape(m)[2]) + 1][((n - 1) % Shape(m)[2]) + 1]]

\* vec.reshape(shape) raises ValueError when the sizes differ.
ReshapeRaises(vec, shape) == Len(vec) # Count(shape)

Reshape_AsOneRow(vec, shape) == <<vec>>

Reshape(vec, shape) ==
    [i \in 1..shape[1] |-> [j \in 1..shape[2] |-> vec[(i - 1) * shape[2] + j]]]

\* LinearRegressionModel._weights_shape (LogisticRegressionModel's is the
\* same rule).
_weights_shape(attributes, n_outputs) == <<attributes + 1, n_outputs>>

\* LinearRegressionModel._equation_output
_equation_output(wm, input_tensor) ==
    [i \in 1..Len(input_tensor) |-> [j \in 1..Shape(wm)[2] |->
        wm[1][j] + Sum([a \in 1..Len(input_tensor[i]) |->
                          input_tensor[i][a] * wm[a + 1][j]])]]

\* The difference of two matrices with as many rows, a single column being
\* repeated as numpy broadcasts it.
Broadcast(row, j) == IF j <= Len(row) THEN row[j] ELSE row[1]

MatSub(a, b) ==
    [i \in 1..Len(a) |->
        [j \in 1..(IF Len(a[i]) >= Len(b[i]) THEN Len(a[i]) ELSE Len(b[i])) |->
            Broadcast(a[i], j) - Broadcast(b[i], j)]]

\* The error function: the sum of squared errors, and its derivative.
ErrorFunc(output_matrix, target_matrix) ==
    Sum([i \in 1..Len(output_matrix) |->
            SumSq(MatSub(output_matrix, target_matrix)[i])])

ErrorFuncJacobian(output_matrix, target_matrix) ==
    [i \in 1..Len(output_matrix) |->
        [j \in 1..Len(MatSub(output_matrix, target_matrix)[i]) |->
            2 * MatSub(output_matrix, target_matrix)[i][j]]]

\* LinearRegressionModel._error_equation_derivative
_error_equation_derivative(input_matrix, error_jac) ==
    << [j \in 1..Len(error_jac[1]) |->
            Sum([i \in 1..Len(error_jac) |-> error_jac[i][j]])] >>
    \o [a \in 1..Len(input_matrix[1]) |->
            [j \in 1..Len(error_jac[1]) |->
                Sum([i \in 1..Len(error_jac) |-> input_matrix[i][a] * error_jac[i][j]])]]

\* The routine of the model: LinearRegressionModel's, or that of a subclass
\* which leaves the bias row out.
EquationDerivative(r, input_matrix, error_jac) ==
    IF r.derivative = "linear"
    THEN _error_equation_derivative(input_matrix, error_jac)
    ELSE Tail(_error_equation_derivative(input_matrix, error_jac))

\* One entry of the log of a method: what was called or done, with the
\* optimizer's state and the weight matrix at that moment, and a value.
LogEntry(e, r, v) ==
    [e |-> e, optimizer |-> r.optimizer, w |-> r.weight_matrix, v |-> v]

\* RegressionModel._get_error_jacobian, lines 194-200, the shapes agreeing.
GetErrorJacobianChecked(r, input_matrix, target_matrix, jacobian) ==
    IF Count(Shape(jacobian)) # Count(Shape(r.weight_matrix))
    THEN [raised |-> "AssertionError", error |-> None, jacobian |-> None,
          log |-> << LogEntry("activate", r, None),
                     LogEntry("error_func.derivative", r, None),
                     LogEntry("_error_equation_derivative", r, jacobian) >>]
    ELSE [raised |-> "none",
          error |-> ErrorFunc(_equation_output(r.weight_matrix, input_matrix), target_matrix),
          jacobian |-> jacobian,
          log |-> << LogEntry("activate", r, None),
                     LogEntry("error_func.derivative", r, None),
                     LogEntry("_error_equation_derivative", r, jacobian) >>]

GetErrorJacobianDerive(r, input_matrix, target_matrix) ==
    GetErrorJacobianChecked(r, input_matrix, target_matrix,
        EquationDerivative(r, input_matrix,
            ErrorFuncJacobian(_equation_output(r.weight_matrix, input_matrix),
                              target_matrix)))

_get_error_jacobian_NoShapeCheck(r, input_matrix, target_matrix) ==
    GetErrorJacobianDerive(r, input_matrix, target_matrix)

\* RegressionModel._get_error_jacobian: [raised, error, jacobian, log]
_get_error_jacobian(r, input_matrix, target_matrix) ==
    IF Shape(_equation_output(r.weight_matrix, input_matrix)) # Shape(target_matrix)
    THEN [raised |-> "ValueError", error |-> None, jacobian |-> None,
          log |-> << LogEntry("activate", r, None) >>]
    ELSE GetErrorJacobianDerive(r, input_matrix, target_matrix)

\* RegressionModel._get_obj_jac, lines 145-147: r is the model with the
\* weight matrix assigned, ej what _get_error_jacobian_with_penalty gave.
GetObjJacReturn(r, ej) ==
    IF ej.raised # "none"
    THEN [reg |-> r, raised |-> ej.raised, error |-> None, jac |-> None,
          log |-> ej.log]
    ELSE [reg |-> r, raised |-> "none", error |-> ej.error,
          jac |-> Ravel(ej.jacobian),
          log |-> Append(ej.log, LogEntry("jacobian.ravel", r, Ravel(ej.jacobian)))]

\* RegressionModel._get_obj_jac(parameter_vec, input_matrix, target_matrix):
\* [reg, raised, error, jac, log]
_get_obj_jac(r, parameter_vec, input_matrix, target_matrix) ==
    IF ReshapeRaises(parameter_vec, Shape(r.weight_matrix))
    THEN [reg |-> r, raised |-> "ValueError", error |-> None, jac |-> None,
          log |-> <<>>]
    ELSE GetObjJacReturn(
            [r EXCEPT !.weight_matrix = Reshape(parameter_vec, Shape(r.weight_matrix))],
            _get_error_jacobian(
                [r EXCEPT !.weight_matrix = Reshape(parameter_vec, Shape(r.weight_matrix))],
                input_matrix, target_matrix))

\* RegressionModel._get_obj(parameter_vec, input_matrix, target_matrix):
\* [reg, raised, ret]
_get_obj(r, parameter_vec, input_matrix, target_matrix) ==
    IF ReshapeRaises(parameter_vec, Shape(r.weight_matrix))
    THEN [reg |-> r, raised |-> "ValueError", ret |-> None]
    ELSE [reg |-> [r EXCEPT !.weight_matrix =
                      Reshape(parameter_vec, Shape(r.weight_matrix))],
          raised |-> "none",
          ret |-> ErrorFunc(
                    _equation_output(Reshape(parameter_vec, Shape(r.weight_matrix)),
                                     input_matrix),
                    target_matrix)]

(***************************************************************************)
(* The optimizer.  next(problem, weights) asks the problem for the         *)
(* objective and jacobian at weights, probes the objective at the points   *)
(* plan.probes steps along the descent direction, and returns the error at *)
(* weights and the point plan.accept steps along; plan.extra makes it      *)
(* return a vector one element too long.  It keeps the last jacobian and   *)
(* the number of steps made since its reset.                               *)
(***************************************************************************)
FreshOptimizer == [steps |-> 0, jacobian |-> None]

StepAlong(xk, jac, a) == [n \in 1..Len(xk) |-> xk[n] - a * Sgn(jac[n])]

RECURSIVE ProbeLoop(_, _, _, _, _, _)
ProbeLoop(r, xk, jac, probes, input_matrix, target_matrix) ==
    IF probes = <<>> THEN r
    ELSE ProbeLoop(
            _get_obj(r, StepAlong(xk, jac, probes[1]), input_matrix, target_matrix).reg,
            xk, jac, Tail(probes), input_matrix, target_matrix)

OptimizerReturn(probed, j, xk, plan) ==
    [reg |-> [probed EXCEPT !.optimizer =
                [steps |-> probed.optimizer.steps + 1, jacobian |-> j.jac]],
     raised |-> "none",
     error |-> j.error,
     flat |-> IF plan.extra THEN Append(StepAlong(xk, j.jac, plan.accept), 0)
              ELSE StepAlong(xk, j.jac, plan.accept),
     log |-> Append(j.log, LogEntry("probes", probed, plan.probes))]

OptimizerAfterObjJac(j, xk, plan, input_matrix, target_matrix) ==
    IF j.raised # "none"
    THEN [reg |-> j.reg, raised |-> j.raised, error |-> None, flat |-> None,
          log |-> j.log]
    ELSE OptimizerReturn(
            ProbeLoop(j.reg, xk, j.jac, plan.probes, input_matrix, target_matrix),
            j, xk, plan)

\* self._optimizer.next(Problem(obj_func, obj_jac_func), weights):
\* [reg, raised, error, flat, log]
OptimizerNext(r, plan, input_matrix, target_matrix) ==
    OptimizerAfterObjJac(
        _get_obj_jac(r, Ravel(r.weight_matrix), input_matrix, target_matrix),
        Ravel(r.weight_matrix), plan, input_matrix, target_matrix)

(***************************************************************************)
(* RegressionModel: train_step, reset, train.                              *)
(***************************************************************************)
\* Line 118
AssignWeights_KeepProbe(r, flat_weights) == r

AssignWeights(r, flat_weights) ==
    [r EXCEPT !.weight_matrix = Reshape(flat_weights, Shape(r.weight_matrix))]

\* Lines 122-123; numpy.linalg.norm(v) < b for b > 0 is SumSq(v) < b*b.
Converged(r) ==
    /\ r.optimizer.jacobian # None
    /\ SumSq(r.optimizer.jacobian) < r.jacobian_norm_break * r.jacobian_norm_break

SetConverged(r) == [r EXCEPT !.converged = Converged(r)]

\* train_step, lines 118-124: n is what the optimizer's next gave.
TrainStepAfterNext(n) ==
    IF n.raised # "none"
    THEN [reg |-> n.reg, raised |-> n.raised, ret |-> None, log |-> n.log]
    ELSE IF ReshapeRaises(n.flat, Shape(n.reg.weight_matrix))
    THEN [reg |-> n.reg, raised |-> "ValueError", ret |-> None,
          log |-> Append(n.log, LogEntry("next", n.reg, [error |-> n.error, flat |-> n.flat]))]
    ELSE [reg |-> SetConverged(AssignWeights(n.reg, n.flat)),
          raised |-> "none",
          ret |-> n.error,
          log |-> Append(n.log, LogEntry("next", n.reg, [error |-> n.error, flat |-> n.flat]))]

\* RegressionModel.train_step(input_matrix, target_matrix):
\* [reg, raised, ret, log]
train_step(r, plan, input_matrix, target_matrix) ==
    TrainStepAfterNext(OptimizerNext(r, plan, input_matrix, target_matrix))

\* RegressionModel._post_train
_post_train_KeepOptimizer(r) == r

_post_train(r) == [r EXCEPT !.optimizer = FreshOptimizer]

\* RegressionModel.reset(), the weight matrix drawn being fresh.
RegressionReset(r, fresh) ==
    [r EXCEPT !.weight_matrix = Reshape(fresh, Shape(r.weight_matrix)),
              !.optimizer = FreshOptimizer]

\* RegressionModel.__init__(attributes, num_outputs,
\* jacobian_norm_break=...), the weight matrix drawn being fresh.
RegressionInit(attributes, n_outputs, jacobian_norm_break, derivative, fresh) ==
    [attributes |-> attributes,
     num_outputs |-> n_outputs,
     weight_matrix |-> Reshape(fresh, _weights_shape(attributes, n_outputs)),
     optimizer |-> FreshOptimizer,
     jacobian_norm_break |-> jacobian_norm_break,
     derivative |-> derivative,
     converged |-> FALSE]

\* Model.train(input_matrix, target_matrix, iterations, error_break), the
\* base training procedure: train_step until the error is below
\* error_break, the model has converged, or the iterations are used up;
\* then _post_train.  t is [reg, raised, steps, log].
RegTrainAfterStep(t, s) ==
    [reg |-> s.reg, raised |-> s.raised,
     steps |-> IF s.raised = "none" THEN Append(t.steps, s.ret) ELSE t.steps,
     log |-> t.log \o s.log]

RegTrainDone(t, iterations, error_break) ==
    \/ Len(t.steps) >= iterations
    \/ /\ t.steps # <<>>
       /\ (t.steps[Len(t.steps)] < error_break \/ t.reg.converged)

RECURSIVE RegTrainLoop(_, _, _, _, _, _)
RegTrainLoop(t, plan, input_matrix, target_matrix, iterations, error_break) ==
    IF t.raised # "none" THEN t
    ELSE IF RegTrainDone(t, iterations, error_break)
    THEN [t EXCEPT !.reg = _post_train(t.reg),
                   !.log = Append(t.log, LogEntry("_post_train", t.reg, None))]
    ELSE RegTrainLoop(
            RegTrainAfterStep(t, train_step(t.reg, plan, input_matrix, target_matrix)),
            plan, input_matrix, target_matrix, iterations, error_break)

RegressionTrain(r, plan, input_matrix, target_matrix, iterations, error_break) ==
    RegTrainLoop([reg |-> r, raised |-> "none", steps |-> <<>>, log |-> <<>>],
                 plan, input_matrix, target_matrix, iterations, error_break)

(***************************************************************************)
(* The regression specification: one LinearRegressionModel of one          *)
(* attribute, and the calls made on it.                                    *)
(***************************************************************************)
RegAttributes == 1
RegOutputs == {1, 2}
RegWeightValues == {0, 1}
RegDerivatives == {"linear", "no_bias"}
RegNormBreak == 1
RegErrorBreaks == {1}

\* A drawn weight matrix, flat: every weight the same value.
FreshWeights(v, shape) == [n \in 1..Count(shape) |-> v]

RegInputs == { <<<<1>>>>, <<<<0>>, <<1>>>> }

\* Batches: an input matrix with a target matrix of 1 or 2 columns.
RegTargets(input_matrix) ==
    { [i \in 1..Len(input_matrix) |-> [j \in 1..c |-> t]] : c \in {1, 2}, t \in {0, 1} }

RegBatches == { [x |-> <<<<0>>, <<1>>>>, t |-> tm] : tm \in RegTargets(<<<<0>>, <<1>>>>) }

\* The batch whose targets are 1 and as wide as the outputs of the model.
RegMatching(r) == { b \in RegBatches : b.t[1][1] = 1 /\ Len(b.t[1]) = r.num_outputs }

\* What the optimizer does in a step.
RegPlans ==
    { [probes |-> <<>>, accept |-> 1, extra |-> FALSE],
      [probes |-> <<2, 3>>, accept |-> 1, extra |-> FALSE],
      [probes |-> <<2>>, accept |-> 0, extra |-> FALSE],
      [probes |-> <<2>>, accept |-> 1, extra |-> TRUE] }

RegTrainPlan == [probes |-> <<2, 3>>, accept |-> 1, extra |-> FALSE]

\* The steps asked for: the plan of two probes with every batch, the other
\* plans with the matching batch.
RegSteps(r) ==
    { [plan |-> RegTrainPlan, b |-> b] : b \in RegBatches }
    \cup { [plan |-> plan, b |-> b] : plan \in RegPlans, b \in RegMatching(r) }

\* The trainings asked for: every batch for MaxIterations, the matching one
\* for no iteration.
RegTrainings(r) ==
    { [b |-> b, iterations |-> MaxIterations] : b \in RegBatches }
    \cup { [b |-> b, iterations |-> 0] : b \in RegMatching(r) }

\* Parameter vectors handed to the callbacks: of the model's size, or one
\* element short.
RegParameterVecs(r) ==
    { FreshWeights(v, Shape(r.weight_matrix)) : v \in {0, 2} }
    \cup { Tail(FreshWeights(0, Shape(r.weight_matrix))) }

\* The callbacks made directly: every vector with the matching batch, the
\* vector of twos with every batch of targets 1.
RegCallbacks(r) ==
    { [xk |-> xk, b |-> b] : xk \in RegParameterVecs(r), b \in RegMatching(r) }
    \cup { [xk |-> FreshWeights(2, Shape(r.weight_matrix)), b |-> b] : b \in { q \in RegBatches : q.t[1][1] = 1 } }

InitRegression ==
    /\ Fresh /\ NoPerceptron /\ NoRBF /\ NoValidation /\ NoCalculate /\ NoGraph
    /\ \E n_outputs \in RegOutputs, d \in RegDerivatives, v \in RegWeightValues :
          reg = RegressionInit(RegAttributes, n_outputs, RegNormBreak, d,
                               FreshWeights(v, _weights_shape(RegAttributes, n_outputs)))
    /\ g_op = "none" /\ g_arg = None /\ g_ret = None /\ g_raised = "none"
    /\ g_log = <<>> /\ g_ncalls = 0

GActivate ==
    /\ g_ncalls < MaxCalls
    /\ \E im \in RegInputs :
          /\ g_arg' = im
          /\ g_ret' = _equation_output(reg.weight_matrix, im)
    /\ g_op' = "activate" /\ g_raised' = "none" /\ g_log' = <<>>
    /\ g_ncalls' = g_ncalls + 1
    /\ UNCHANGED reg
    /\ UNCHANGED exceptReg

GReset ==
    /\ g_ncalls < MaxCalls
    /\ \E v \in RegWeightValues :
          /\ reg' = RegressionReset(reg, FreshWeights(v, Shape(reg.weight_matrix)))
          /\ g_arg' = <<v>>
    /\ g_op' = "reset" /\ g_ret' = None /\ g_raised' = "none" /\ g_log' = <<>>
    /\ g_ncalls' = g_ncalls + 1
    /\ UNCHANGED exceptReg

GGetObjReturns(c) ==
    /\ reg' = c.reg /\ g_ret' = c.ret /\ g_raised' = c.raised /\ g_log' = <<>>

GGetObj ==
    /\ g_ncalls < MaxCalls
    /\ \E a \in RegCallbacks(reg) :
          /\ g_arg' = [xk |-> a.xk, x |-> a.b.x, t |-> a.b.t]
          /\ GGetObjReturns(_get_obj(reg, a.xk, a.b.x, a.b.t))
    /\ g_op' = "_get_obj"
    /\ g_ncalls' = g_ncalls + 1
    /\ UNCHANGED exceptReg

GGetObjJacReturns(c) ==
    /\ reg' = c.reg /\ g_raised' = c.raised /\ g_log' = c.log
    /\ g_ret' = IF c.raised = "none" THEN [error |-> c.error, jac |-> c.jac] ELSE None

GGetObjJac ==
    /\ g_ncalls < MaxCalls
    /\ \E a \in RegCallbacks(reg) :
          /\ g_arg' = [xk |-> a.xk, x |-> a.b.x, t |-> a.b.t]
          /\ GGetObjJacReturns(_get_obj_jac(reg, a.xk, a.b.x, a.b.t))
    /\ g_op' = "_get_obj_jac"
    /\ g_ncalls' = g_ncalls + 1
    /\ UNCHANGED exceptReg

GTrainStepReturns(c) ==
    /\ reg' = c.reg /\ g_ret' = c.ret /\ g_raised' = c.raised /\ g_log' = c.log

GTrainStep ==
    /\ g_ncalls < MaxCalls
    /\ \E a \in RegSteps(reg) :
          /\ g_arg' = [plan |-> a.plan, x |-> a.b.x, t |-> a.b.t]
          /\ GTrainStepReturns(train_step(reg, a.plan, a.b.x, a.b.t))
    /\ g_op' = "train_step"
    /\ g_ncalls' = g_ncalls + 1
    /\ UNCHANGED exceptReg

GTrainReturns(c) ==
    /\ reg' = c.reg /\ g_ret' = c.steps /\ g_raised' = c.raised /\ g_log' = c.log

GTrain ==
    /\ g_ncalls < MaxCalls
    /\ \E a \in RegTrainings(reg), error_break \in RegErrorBreaks :
          /\ g_arg' = [x |-> a.b.x, t |-> a.b.t, iterations |-> a.iterations]
          /\ GTrainReturns(RegressionTrain(reg, RegTrainPlan, a.b.x, a.b.t, a.iterations, error_break))
    /\ g_op' = "train"
    /\ g_ncalls' = g_ncalls + 1
    /\ UNCHANGED exceptReg

NextRegression ==
    \/ GActivate
    \/ GReset
    \/ GGetObj
    \/ GGetObjJac
    \/ GTrainStep
    \/ GTrain

SpecRegression == InitRegression /\ [][NextRegression]_vars

(***************************************************************************)
(* C13: in every reachable state the weight matrix of the regression model *)
(* is a matrix of the shape _weights_shape(attributes, num_outputs), that  *)
(* is (attributes + 1, num_outputs): train_step, reset, activate and the   *)
(* callbacks _get_obj and _get_obj_jac, in any order and whether they      *)
(* return or raise, leave the shape as the constructor made it.            *)
(***************************************************************************)
IsMatrixOfShape(m, shape) ==
    /\ Len(m) = shape[1]
    /\ \A i \in 1..Len(m) : Len(m[i]) = shape[2]

C13_WeightShapeInvariant ==
    reg # None =>
        /\ IsMatrixOfShape(reg.weight_matrix, _weights_shape(reg.attributes, reg.num_outputs))
        /\ Shape(reg.weight_matrix) = <<reg.attributes + 1, reg.num_outputs>>

\* A second call, a train_step whose optimizer probed the objective twice,
\* has returned on a model of two outputs with weights that moved.
C13_Witness ==
    /\ g_op = "train_step" /\ g_raised = "none" /\ g_ncalls = 2
    /\ g_arg.plan.probes = <<2, 3>>
    /\ reg.num_outputs = 2
    /\ Shape(reg.weight_matrix) = <<2, 2>>
    /\ reg.weight_matrix # g_log[1].w

(***************************************************************************)
(* C14: when train_step has returned, the weight matrix is the flat vector *)
(* the optimizer's next() returned, reshaped to the shape of the matrix,   *)
(* whatever vectors the optimizer handed to _get_obj and _get_obj_jac      *)
(* during the step; the value returned is the error next() returned; and   *)
(* converged holds exactly when the optimizer has a jacobian and its norm  *)
(* is below jacobian_norm_break.                                           *)
(***************************************************************************)
\* What next() returned in the step that has just ended.
NextReturned == g_log[Len(g_log)].v

C14_TrainStepTakesOptimizerResult ==
    (g_op = "train_step" /\ g_raised = "none") =>
        /\ g_log[Len(g_log)].e = "next"
        /\ reg.weight_matrix = Reshape(NextReturned.flat, <<reg.attributes + 1, reg.num_outputs>>)
        /\ Ravel(reg.weight_matrix) = NextReturned.flat
        /\ g_ret = NextReturned.error
        /\ reg.converged <=>
              /\ reg.optimizer.jacobian # None
              /\ SumSq(reg.optimizer.jacobian) < reg.jacobian_norm_break * reg.jacobian_norm_break

\* A train_step has returned whose optimizer probed the objective at two
\* other vectors, the last of which is not the one it returned.
C14_Witness ==
    /\ g_op = "train_step" /\ g_raised = "none"
    /\ g_arg.plan.probes = <<2, 3>>
    /\ g_log[Len(g_log) - 1].e = "probes"
    /\ Ravel(g_log[Len(g_log) - 1].w) # NextReturned.flat
    /\ Ravel(g_log[1].w) # NextReturned.flat
    /\ ~reg.converged

\* A train_step has returned with the model converged.
C14_ConvergedReached == g_op = "train_step" /\ g_raised = "none" /\ reg.converged

(***************************************************************************)
(* C15: in _get_obj_jac, called directly or by the optimizer in a          *)
(* train_step or a train, (a) a jacobian of the equation-derivative        *)
(* routine with another number of elements than the weight matrix makes    *)
(* the computation raise at once: nothing is done after the routine, the   *)
(* jacobian is not ravelled and not returned; and (b) an output matrix of  *)
(* another shape than the target matrix raises ValueError with the error   *)
(* function's derivative not evaluated.                                    *)
(***************************************************************************)
RegCalls == {"_get_obj_jac", "train_step", "train"}

C15_FailFast ==
    g_op \in RegCalls =>
        \A k \in 1..Len(g_log) :
            /\ (/\ g_log[k].e = "_error_equation_derivative"
                /\ Count(Shape(g_log[k].v)) # Count(Shape(g_log[k].w)))
               => /\ g_raised = "AssertionError"
                  /\ k = Len(g_log)
                  /\ g_ret = None
            /\ (/\ g_log[k].e = "activate"
                /\ Shape(_equation_output(g_log[k].w, g_arg.x)) # Shape(g_arg.t))
               => /\ g_raised = "ValueError"
                  /\ k = Len(g_log)
                  /\ g_ret = None

\* _get_obj_jac has raised on the jacobian of a routine that leaves the
\* bias row out, the shapes of outputs and targets agreeing.
C15_Witness ==
    /\ g_op = "_get_obj_jac" /\ g_raised = "AssertionError"
    /\ reg.derivative = "no_bias"
    /\ g_log[Len(g_log)].e = "_error_equation_derivative"
    /\ Count(Shape(g_log[Len(g_log)].v)) = 1
    /\ Count(Shape(reg.weight_matrix)) = 2

\* _get_obj_jac has raised on targets of two columns for one output.
C15_ShapeMismatchReached ==
    /\ g_op = "_get_obj_jac" /\ g_raised = "ValueError"
    /\ Len(g_log) = 1 /\ g_log[1].e = "activate"
    /\ reg.num_outputs = 1 /\ Len(g_arg.t[1]) = 2

(***************************************************************************)
(* C16: every train() that returns ends with the post-train hook and       *)
(* leaves the optimizer as its reset() leaves it, every reset() of the     *)
(* model does the same, and so the first train_step of a train() that      *)
(* follows a train() or a reset() starts with an optimizer that holds      *)
(* nothing of the steps made before.                                       *)
(***************************************************************************)
C16_OptimizerResetStep ==
    /\ (g_op' = "train" /\ g_raised' = "none")
          => /\ reg'.optimizer = FreshOptimizer
             /\ g_log' # <<>>
             /\ g_log'[Len(g_log')].e = "_post_train"
    /\ g_op' = "reset" => reg'.optimizer = FreshOptimizer
    /\ (/\ g_op \in {"train", "reset"} /\ g_raised = "none"
        /\ g_op' = "train" /\ Len(g_log') > 1)
          => /\ g_log'[1].optimizer.steps = 0
             /\ g_log'[1].optimizer.jacobian = None

C16_OptimizerReset == [][C16_OptimizerResetStep]_vars

\* A train() called second has made two steps, the second of them with the
\* optimizer holding the first, and has returned with the optimizer reset.
C16_Witness ==
    /\ g_op = "train" /\ g_raised = "none" /\ g_ncalls = 2
    /\ Len(g_ret) = 2
    /\ \E k \in 1..Len(g_log) : g_log[k].optimizer.steps = 1
    /\ g_log[1].optimizer = FreshOptimizer
    /\ g_log[Len(g_log)].e = "_post_train"
    /\ g_log[Len(g_log)].optimizer.steps = 2
    /\ reg.optimizer = FreshOptimizer

(***************************************************************************)
(* C19: Network.activate is idempotent.  An activate call changes no       *)
(* layer's weights, no layer and no counter of the network; and an         *)
(* activate call that follows an activate call with the same input, with   *)
(* nothing called in between, returns or raises what the first did, makes  *)
(* the same layer calls and leaves the same trace.                         *)
(***************************************************************************)
C19_ActivateStep ==
    /\ Calling("activate")
          => /\ weights' = weights
             /\ layers' = layers
             /\ iteration' = iteration
             /\ <<num_inputs', num_outputs'>> = <<num_inputs, num_outputs>>
    /\ (op = "activate" /\ Calling("activate") /\ arg' = arg)
          => /\ ret' = ret
             /\ raised' = raised
             /\ activations' = activations
             /\ calls' = calls

Least(a, b) == IF a <= b THEN a ELSE b

\* seq[a:b] of a list, for 0 <= a and 0 <= b: the bounds are cut to the
\* length of the list.
Slice(seq, a, b) ==
    [n \in 1..(Least(b, Len(seq)) - Least(a, Len(seq))) |-> seq[Least(a, Len(seq)) + n]]

\* Lines 89-92
NewSet_NoRemainder(patterns, num_sets, i, start_pos, set_size) ==
    Slice(patterns, start_pos, start_pos + set_size)

NewSet(patterns, num_sets, i, start_pos, set_size) ==
    IF i = num_sets - 1
    THEN Slice(patterns, start_pos, Len(patterns))
    ELSE Slice(patterns, start_pos, start_pos + set_size)

\* The loop of _split_dataset, from pass i on.
RECURSIVE SplitLoop(_, _, _, _, _, _)
SplitLoop(patterns, num_sets, set_size, i, start_pos, sets) ==
    IF i >= num_sets THEN sets
    ELSE SplitLoop(patterns, num_sets, set_size, i + 1, start_pos + set_size,
                   Append(sets, NewSet(patterns, num_sets, i, start_pos, set_size)))

\* _split_dataset(patterns, num_sets), num_sets >= 1; the division of two
\* ints rounds down.
_split_dataset(patterns, num_sets) ==
    SplitLoop(patterns, num_sets, Len(patterns) \div num_sets, 0, 0, <<>>)

\* The inner loop of _create_train_test_sets, from pass j on.
RECURSIVE TrainSetLoop(_, _, _, _)
TrainSetLoop(sets, i, j, train_set) ==
    IF j >= Len(sets) THEN train_set
    ELSE TrainSetLoop(sets, i, j + 1,
                      IF i # j THEN train_set \o sets[j + 1] ELSE train_set)

\* The outer loop of _create_train_test_sets, from pass i on.
RECURSIVE TrainTestLoop(_, _, _)
TrainTestLoop(sets, i, train_test_sets) ==
    IF i >= Len(sets) THEN train_test_sets
    ELSE TrainTestLoop(sets, i + 1,
            Append(train_test_sets, <<TrainSetLoop(sets, i, 0, <<>>), sets[i + 1]>>))

\* _create_train_test_sets(sets)
_create_train_test_sets(sets) == TrainTestLoop(sets, 0, <<>>)

(***************************************************************************)
(* The cross-validation specification: the two calls cross_validate makes, *)
(* on a list of up to MaxPatterns patterns, two of which may be equal, and *)
(* 1 to MaxFolds folds.                                                    *)
(***************************************************************************)
MaxPatterns == 4
MaxFolds == 5

PatternValues == {0, 1}

RECURSIVE ListsUpTo(_, _)
ListsUpTo(S, n) ==
    IF n = 0 THEN {<<>>}
    ELSE ListsUpTo(S, n - 1) \cup [1..n -> S]

InitValidation ==
    /\ Fresh /\ NoPerceptron /\ NoRBF /\ NoRegression /\ NoCalculate /\ NoGraph
    /\ v_op = "none" /\ v_patterns = <<>> /\ v_num_sets = 0
    /\ v_sets = <<>> /\ v_pairs = <<>>

VSplitDataset ==
    /\ v_op = "none"
    /\ \E ps \in ListsUpTo(PatternValues, MaxPatterns), k \in 1..MaxFolds :
          /\ v_patterns' = ps
          /\ v_num_sets' = k
          /\ v_sets' = _split_dataset(ps, k)
    /\ v_op' = "_split_dataset"
    /\ UNCHANGED v_pairs
    /\ UNCHANGED exceptVal

VCreateTrainTestSets ==
    /\ v_op = "_split_dataset"
    /\ v_pairs' = _create_train_test_sets(v_sets)
    /\ v_op' = "_create_train_test_sets"
    /\ UNCHANGED <<v_patterns, v_num_sets, v_sets>>
    /\ UNCHANGED exceptVal

NextValidation ==
    \/ VSplitDataset
    \/ VCreateTrainTestSets

SpecValidation == InitValidation /\ [][NextValidation]_vars

(***************************************************************************)
(* C20: for a list of N patterns and k >= 1 folds, the two calls give k    *)
(* (train, test) pairs; the test sets, taken in order, hold the patterns   *)
(* of consecutive ranges of positions that are pairwise disjoint and cover *)
(* the positions 1..N, so that every pattern is in exactly one test set;   *)
(* and the train set of each pair holds, in order, the patterns at all     *)
(* other positions.  This holds when k does not divide N and when k > N.   *)
(***************************************************************************)
TestOf(i) == v_pairs[i][2]

TrainOf(i) == v_pairs[i][1]

\* The number of patterns in the test sets before pair i.
RECURSIVE TestOffset(_)
TestOffset(i) == IF i = 1 THEN 0 ELSE TestOffset(i - 1) + Len(TestOf(i - 1))

\* The positions pair i tests.
TestPositions(i) == (TestOffset(i) + 1)..(TestOffset(i) + Len(TestOf(i)))

\* The patterns at the positions of the set P, in order.
RECURSIVE PatternsAt(_, _)
PatternsAt(P, from) ==
    IF from > Len(v_patterns) THEN <<>>
    ELSE (IF from \in P THEN <<v_patterns[from]>> ELSE <<>>) \o PatternsAt(P, from + 1)

C20_FoldsPartition ==
    v_op = "_create_train_test_sets" =>
        /\ Len(v_pairs) = v_num_sets
        /\ \A i \in 1..Len(v_pairs) :
              /\ TestPositions(i) \subseteq 1..Len(v_patterns)
              /\ TestOf(i) = PatternsAt(TestPositions(i), 1)
              /\ TrainOf(i) = PatternsAt((1..Len(v_patterns)) \ TestPositions(i), 1)
              /\ Len(TrainOf(i)) + Len(TestOf(i)) = Len(v_patterns)
        /\ \A i, j \in 1..Len(v_pairs) :
              i # j => TestPositions(i) \cap TestPositions(j) = {}
        /\ UNION { TestPositions(i) : i \in 1..Len(v_pairs) } = 1..Len(v_patterns)

\* Four patterns in three folds: test sets of 1, 1 and 2 patterns.
C20_Witness ==
    /\ v_op = "_create_train_test_sets"
    /\ Len(v_patterns) = 4 /\ v_num_sets = 3
    /\ v_patterns = <<0, 1, 1, 0>>
    /\ Len(TestOf(1)) = 1 /\ Len(TestOf(2)) = 1 /\ Len(TestOf(3)) = 2
    /\ TrainOf(2) = <<0, 1, 0>>

\* More folds than patterns: every test set but the last is empty.
C20_MoreFoldsThanPatterns ==
    /\ v_op = "_create_train_test_sets"
    /\ Len(v_patterns) = 2 /\ v_num_sets = 5
    /\ \A i \in 1..4 : TestOf(i) = <<>> /\ TrainOf(i) = v_patterns
    /\ TestOf(5) = v_patterns /\ TrainOf(5) = <<>>

(***************************************************************************)
(* calculate.protvecdiv.  A vector is a sequence of numbers, each a pair   *)
(* as above.  numpy divides as IEEE 754 does, and inside                   *)
(* errstate(divide='raise', invalid='raise') a division that signals       *)
(* divide-by-zero or invalid raises FloatingPointError.                    *)
(***************************************************************************)
IsInf(a) == a[2] = 0 /\ a[1] # 0

\* Divide-by-zero is signalled for a finite non-zero dividend only.
SignalsDivide(a, b) == IsFinite(a) /\ a # Num(0) /\ b = Num(0)

\* Invalid is signalled for 0/0 and inf/inf; a NaN operand is quiet.
SignalsInvalid(a, b) == (a = Num(0) /\ b = Num(0)) \/ (IsInf(a) /\ IsInf(b))

DivisionRaises(a, b) == SignalsDivide(a, b) \/ SignalsInvalid(a, b)

\* Lines 23-27: the loop of the fallback, from component i on.
RECURSIVE ComponentLoop(_, _, _, _)
ComponentLoop(vec_a, vec_b, i, result_vec) ==
    IF i >= Len(vec_a) THEN result_vec
    ELSE ComponentLoop(vec_a, vec_b, i + 1,
            IF DivisionRaises(vec_a[i + 1], vec_b[i + 1])
            THEN result_vec
            ELSE [result_vec EXCEPT ![i + 1] = NumDiv(vec_a[i + 1], vec_b[i + 1])])

\* protvecdiv(vec_a, vec_b), the vectors as long as each other.
protvecdiv(vec_a, vec_b) ==
    IF \A i \in 1..Len(vec_a) : ~DivisionRaises(vec_a[i], vec_b[i])
    THEN [i \in 1..Len(vec_a) |-> NumDiv(vec_a[i], vec_b[i])]
    ELSE ComponentLoop(vec_a, vec_b, 0, [i \in 1..Len(vec_a) |-> Num(0)])

(***************************************************************************)
(* The protvecdiv specification: one call on two vectors of 1 to MaxVecLen *)
(* components.                                                             *)
(***************************************************************************)
MaxVecLen == 3

Dividends == {Num(0), Num(4), Num(9), <<1, 0>>, NaN}
Divisors == {Num(0), Num(2), Num(3), <<1, 0>>}

InitCalculate ==
    /\ Fresh /\ NoPerceptron /\ NoRBF /\ NoRegression /\ NoValidation /\ NoGraph
    /\ c_op = "none" /\ c_vec_a = <<>> /\ c_vec_b = <<>> /\ c_ret = <<>>
    /\ c_raised = "none"

CProtvecdiv ==
    /\ c_op = "none"
    /\ \E n \in 1..MaxVecLen : \E vec_a \in [1..n -> Dividends], vec_b \in [1..n -> Divisors] :
          /\ c_vec_a' = vec_a
          /\ c_vec_b' = vec_b
          /\ c_ret' = protvecdiv(vec_a, vec_b)
    /\ c_op' = "protvecdiv"
    /\ c_raised' = "none"
    /\ UNCHANGED exceptCalc

NextCalculate == CProtvecdiv

SpecCalculate == InitCalculate /\ [][NextCalculate]_vars

(***************************************************************************)
(* C21: protvecdiv(a, b) returns, without raising, in every component i, 0 *)
(* when b[i] is 0 and a[i]/b[i] otherwise.                                 *)
(***************************************************************************)
C21_SafeDivide ==
    c_op = "protvecdiv" =>
        /\ c_raised = "none"
        /\ Len(c_ret) = Len(c_vec_a)
        /\ \A i \in 1..Len(c_ret) :
              c_ret[i] = IF c_vec_b[i] = Num(0) THEN Num(0)
                         ELSE NumDiv(c_vec_a[i], c_vec_b[i])

\* The same with every dividend finite, where it holds.
C21_SafeDivideFinite ==
    (c_op = "protvecdiv" /\ AllFinite(c_vec_a)) =>
        /\ c_raised = "none"
        /\ \A i \in 1..Len(c_ret) :
              c_ret[i] = IF c_vec_b[i] = Num(0) THEN Num(0)
                         ELSE NumDiv(c_vec_a[i], c_vec_b[i])

\* An infinite dividend over a zero divisor comes back infinite, beside a
\* component the fallback has set to 0.
C21_InfiniteOverZero ==
    /\ c_op = "protvecdiv"
    /\ c_vec_a = << <<1, 0>>, Num(4) >> /\ c_vec_b = << Num(0), Num(0) >>
    /\ c_ret = << <<1, 0>>, Num(0) >>

\* The vectors a = [4, 0, 9], b = [2, 0, 3] give [2, 0, 3].
C21_Example ==
    /\ c_op = "protvecdiv"
    /\ c_vec_a = <<Num(4), Num(0), Num(9)>> /\ c_vec_b = <<Num(2), Num(0), Num(3)>>
    /\ c_ret = <<Num(2), Num(0), Num(3)>>

(***************************************************************************)
(* The selection specification: one call of a pattern selection function   *)
(* on a list of up to MaxPatterns patterns, two of which may be equal,     *)
(* with the size omitted or 0 to MaxPatterns.  The call is recorded in the *)
(* fields op, arg, ret and raised; ret holds the positions drawn and the   *)
(* patterns returned, arg the list before and after the call.              *)
(***************************************************************************)
SelectSizes == {NoSize} \cup 0..MaxPatterns

\* The list a selection function returns, for the positions q it drew.
Selected(patterns, q) == [i \in 1..Len(q) |-> patterns[q[i]]]

SelectCall(name, patterns, size) ==
    /\ op' = name
    /\ arg' = [patterns |-> patterns, size |-> size, after |-> patterns]

SelectReturns(patterns, q) ==
    /\ ret' = [positions |-> q, patterns |-> Selected(patterns, q)]
    /\ raised' = "none"

SelectFails(name) ==
    /\ ret' = None
    /\ raised' = name

SelectFrame ==
    /\ UNCHANGED <<built, layers, num_inputs, num_outputs, activations, iteration, logging, weights, calls, epochs, ncalls>>
    /\ UNCHANGED exceptNet

InitSelect == Init

SSelectIterative ==
    /\ op = "none"
    /\ \E ps \in ListsUpTo(PatternValues, MaxPatterns) :
          /\ SelectCall("select_iterative", ps, NoSize)
          /\ \E q \in select_iterative(Len(ps)) : SelectReturns(ps, q)
    /\ SelectFrame

SSelectSample ==
    /\ op = "none"
    /\ \E ps \in ListsUpTo(PatternValues, MaxPatterns), size \in SelectSizes :
          /\ SelectCall("select_sample", ps, size)
          /\ IF select_sample_raises(Len(ps), size)
             THEN SelectFails("ValueError")
             ELSE \E q \in select_sample(Len(ps), size) : SelectReturns(ps, q)
    /\ SelectFrame

SSelectRandom ==
    /\ op = "none"
    /\ \E ps \in ListsUpTo(PatternValues, MaxPatterns), size \in SelectSizes :
          /\ SelectCall("select_random", ps, size)
          /\ IF select_random_raises(Len(ps), size)
             THEN SelectFails("ValueError")
             ELSE \E q \in select_random(Len(ps), size) : SelectReturns(ps, q)
    /\ SelectFrame

NextSelect ==
    \/ SSelectIterative
    \/ SSelectSample
    \/ SSelectRandom

SpecSelect == InitSelect /\ [][NextSelect]_vars

(***************************************************************************)
(* C22: select_iterative returns the patterns as they are, in order;       *)
(* select_sample returns size patterns (all of them when the size is       *)
(* omitted) drawn from pairwise distinct positions of the list, which it   *)
(* can do, and does, exactly when size is at most the number of patterns;  *)
(* select_random returns size patterns, each one a pattern of the list,    *)
(* a position possibly drawn twice, which it can do, and does, unless the  *)
(* list is empty and size is positive; no call changes the list.           *)
(***************************************************************************)
Asked == IF arg.size = NoSize THEN Len(arg.patterns) ELSE arg.size

IsSelection ==
    /\ Len(ret.patterns) = Asked
    /\ Len(ret.positions) = Asked
    /\ \A i \in 1..Asked :
          /\ ret.positions[i] \in 1..Len(arg.patterns)
          /\ ret.patterns[i] = arg.patterns[ret.positions[i]]

C22_RandomRepeats ==
    /\ op = "select_random" /\ raised = "none"
    /\ arg.patterns = <<0, 1>> /\ arg.size = 3
    /\ ret.positions = <<2, 2, 1>>

(***************************************************************************)
(* C23: in an update of n layers that returns, the update of the last      *)
(* layer is given errors = targets - outputs of the forward pass; the      *)
(* update of every earlier layer k is given what get_prev_errors of layer  *)
(* k + 1 returned, which was computed on the weight layer k + 1 had before *)
(* its own update; the update of layer k is given as inputs the element of *)
(* the trace that the forward pass of this update recorded as the input of *)
(* layer k; and the update returns targets - outputs of the forward pass.  *)
(***************************************************************************)
\* The calls made on layer k in the backward pass of the update logged.
PrevErrorsCall(k) == calls[BackwardBase(Len(layers), k) + 1]

UpdateCall(k) == calls[BackwardBase(Len(layers), k) + 2]

\* What the get_prev_errors call logged for layer k returned, layer k
\* having the weight w.
PrevErrorsReturned(k, w) ==
    LayerGetPrevErrors(layers[k], w, PrevErrorsCall(k).errors, PrevErrorsCall(k).outputs)

C23_ErrorPropagation ==
    (op = "update" /\ raised = "none") =>
        /\ Len(layers) >= 1
        /\ UpdateCall(Len(layers)).errors = VecSub(arg.targets, activations[Len(layers) + 1])
        /\ \A k \in 1..(Len(layers) - 1) :
              /\ PrevErrorsCall(k + 1).w = calls[k + 1].w
              /\ UpdateCall(k).errors = PrevErrorsReturned(k + 1, calls[k + 1].w)
        /\ \A k \in 1..Len(layers) :
              /\ UpdateCall(k).m = "update" /\ UpdateCall(k).k = k
              /\ UpdateCall(k).inputs = activations[k]
              /\ UpdateCall(k).inputs = calls[k].inputs
              /\ UpdateCall(k).errors = PrevErrorsCall(k).errors
        /\ activations[1] = arg.inputs
        /\ ret = VecSub(arg.targets, activations[Len(layers) + 1])

\* An update of three layers in which the errors given to the first layer
\* are not those given to the last, the last layer's weight has changed
\* and with its new weight its get_prev_errors would have returned
\* something else than the layer before it was given, and the trace is not
\* constant.
C23_Witness ==
    /\ op = "update" /\ raised = "none"
    /\ Len(layers) = 3
    /\ UpdateCall(1).errors # UpdateCall(3).errors
    /\ weights[3] # calls[3].w
    /\ PrevErrorsReturned(3, weights[3]) # UpdateCall(2).errors
    /\ activations[1] # activations[2]
    /\ ret # UpdateCall(2).errors

(***************************************************************************)
(* graph.Graph.  adjacency is a function from the from-nodes (the keys of  *)
(* the dict) to the lists of their connected nodes; nodes and edges are    *)
(* sets.  An edge argument is [is_tuple, items].                           *)
(***************************************************************************)
Elements(list) == { list[i] : i \in 1..Len(list) }

\* _validate_edge(edge) raises TypeError.
_validate_edge_raises(edge) == ~edge.is_tuple \/ Len(edge.items) # 2

\* Graph._extract_nodes
_extract_nodes(adjacency) ==
    DOMAIN adjacency \cup UNION { Elements(adjacency[u]) : u \in DOMAIN adjacency }

\* Graph._extract_edges
_extract_edges(adjacency) ==
    UNION { { <<u, v>> : v \in Elements(adjacency[u]) } : u \in DOMAIN adjacency }

\* Graph.__init__(adjacency_dict), adjacency_dict a dict.
GraphInit(adjacency_dict) ==
    [adjacency |-> adjacency_dict,
     nodes |-> _extract_nodes(adjacency_dict),
     edges |-> _extract_edges(adjacency_dict)]

\* dict[key] = value
SetItem(d, key, value) ==
    [u \in DOMAIN d \cup {key} |-> IF u = key THEN value ELSE d[u]]

\* Lines 51-56 of add_edge.
AddToAdjacency(adjacency, from_node, to_node) ==
    IF from_node \in DOMAIN adjacency
    THEN SetItem(adjacency, from_node, Append(adjacency[from_node], to_node))
    ELSE SetItem(adjacency, from_node, <<to_node>>)

\* Graph.add_edge(edge): [graph, raised]
add_edge(g, edge) ==
    IF _validate_edge_raises(edge) THEN [graph |-> g, raised |-> "TypeError"]
    ELSE IF <<edge.items[1], edge.items[2]>> \in g.edges
    THEN [graph |-> g, raised |-> "ValueError"]
    ELSE [graph |-> [adjacency |-> AddToAdjacency(g.adjacency, edge.items[1], edge.items[2]),
                     nodes |-> g.nodes \cup {edge.items[1], edge.items[2]},
                     edges |-> g.edges \cup {<<edge.items[1], edge.items[2]>>}],
          raised |-> "none"]

\* list.remove(x): the list without the first x in it.
RECURSIVE ListRemove(_, _)
ListRemove(list, x) ==
    IF list = <<>> THEN <<>>
    ELSE IF list[1] = x THEN Tail(list)
    ELSE <<list[1]>> \o ListRemove(Tail(list), x)

\* Graph.remove_edge(edge): [graph, raised]
remove_edge(g, edge) ==
    IF _validate_edge_raises(edge) THEN [graph |-> g, raised |-> "TypeError"]
    ELSE IF <<edge.items[1], edge.items[2]>> \notin g.edges
    THEN [graph |-> g, raised |-> "ValueError"]
    ELSE IF edge.items[1] \notin DOMAIN g.adjacency
    THEN [graph |-> g, raised |-> "KeyError"]
    ELSE IF edge.items[2] \notin Elements(g.adjacency[edge.items[1]])
    THEN [graph |-> g, raised |-> "ValueError"]
    ELSE [graph |-> [adjacency |-> SetItem(g.adjacency, edge.items[1],
                                      ListRemove(g.adjacency[edge.items[1]], edge.items[2])),
                     nodes |-> g.nodes,
                     edges |-> g.edges \ {<<edge.items[1], edge.items[2]>>}],
          raised |-> "none"]

(***************************************************************************)
(* The graph specification: a Graph built from an adjacency dict over the  *)
(* nodes GraphNodes with lists of up to MaxNeighbours nodes, one node      *)
(* possibly twice in a list, and up to MaxCalls calls of add_edge and      *)
(* remove_edge.                                                            *)
(***************************************************************************)
MaxNeighbours == 2

GraphNodes == {"a", "b"}

NeighbourLists == ListsUpTo(GraphNodes, MaxNeighbours)

AdjacencyDicts == UNION { [keys -> NeighbourLists] : keys \in SUBSET GraphNodes }

\* The edges calls are made with: every pair of nodes, a tuple of three
\* items and a list of two.
EdgeArgs ==
    { [is_tuple |-> TRUE, items |-> <<u, v>>] : u, v \in GraphNodes }
    \cup { [is_tuple |-> TRUE, items |-> <<"a", "b", "a">>],
           [is_tuple |-> FALSE, items |-> <<"a", "b">>] }

InitGraph ==
    /\ Fresh /\ NoPerceptron /\ NoRBF /\ NoRegression /\ NoValidation /\ NoCalculate
    /\ \E adjacency_dict \in AdjacencyDicts : graph = GraphInit(adjacency_dict)
    /\ h_op = "__init__" /\ h_arg = None /\ h_raised = "none"
    /\ h_before = None /\ h_ncalls = 0

HReturns(c) ==
    /\ graph' = c.graph
    /\ h_raised' = c.raised
    /\ h_before' = graph
    /\ h_ncalls' = h_ncalls + 1

HAddEdge ==
    /\ h_ncalls < MaxCalls
    /\ \E edge \in EdgeArgs :
          /\ h_arg' = edge
          /\ HReturns(add_edge(graph, edge))
    /\ h_op' = "add_edge"
    /\ UNCHANGED exceptGraph

HRemoveEdge ==
    /\ h_ncalls < MaxCalls
    /\ \E edge \in EdgeArgs :
          /\ h_arg' = edge
          /\ HReturns(remove_edge(graph, edge))
    /\ h_op' = "remove_edge"
    /\ UNCHANGED exceptGraph

NextGraph ==
    \/ HAddEdge
    \/ HRemoveEdge

SpecGraph == InitGraph /\ [][NextGraph]_vars

(***************************************************************************)
(* C24: in every state of a Graph, edges is the set of the pairs (u, v)    *)
(* with v in adjacency[u], both nodes of every edge are in nodes, and a    *)
(* call that has raised has left adjacency, nodes and edges as they were.  *)
(***************************************************************************)
C24_GraphConsistent ==
    graph # None =>
        /\ graph.edges = _extract_edges(graph.adjacency)
        /\ \A e \in graph.edges : e[1] \in graph.nodes /\ e[2] \in graph.nodes
        /\ (h_raised # "none" /\ h_op # "__init__") => graph = h_before

\* The parts that hold: the nodes of the edges, the calls that raise, and
\* edges within the pairs of adjacency.
C24_HoldingParts ==
    graph # None =>
        /\ graph.edges \subseteq _extract_edges(graph.adjacency)
        /\ \A e \in graph.edges : e[1] \in graph.nodes /\ e[2] \in graph.nodes
        /\ _extract_nodes(graph.adjacency) \subseteq graph.nodes
        /\ (h_raised # "none" /\ h_op # "__init__") => graph = h_before
        /\ h_raised \in {"none", "TypeError", "ValueError"}

\* The edge (a, b), twice in the list of a, has been removed: it is no
\* longer in edges and still in adjacency.
C24_DuplicateLeftBehind ==
    /\ h_op = "remove_edge" /\ h_raised = "none"
    /\ h_arg.items = <<"a", "b">>
    /\ h_before.adjacency["a"] = <<"b", "b">>
    /\ graph.adjacency["a"] = <<"b">>
    /\ <<"a", "b">> \notin graph.edges

=============================================================================
